---- MODULE Spec2Model ----
(***************************************************************************)
(* A model of the Acacia kernel (package kernel), its service registry     *)
(* (package registry) and its access controller (package auth).            *)
(*                                                                         *)
(* The kernel's operations are run by client threads.  A step of a thread  *)
(* is one section of an operation that the kernel executes under its lock, *)
(* or one call of a component callback made outside the lock; a callback   *)
(* that fails changes no shared state, so it is taken together with the    *)
(* locked section that follows it.  Components behave like the recording   *)
(* module and gateway of the kernel tests: Start makes a component         *)
(* started, Stop makes it stopped, RegisterServices registers the service  *)
(* <name>Service, and every callback may fail.                             *)
(***************************************************************************)
EXTENDS Integers, Sequences, FiniteSets, TLC

VARIABLES
    modules,       \* kernel.modules: name -> module instance
    moduleStates,  \* kernel.moduleStates: name -> enabled?
    gateways,      \* kernel.gateways: the names of the registered gateways
    running,       \* kernel.running
    accessController, \* kernel.accessController: "allowAll" or "rbac"
    regServices,   \* registry.services: service name -> owning module name
    regGateways,   \* registry.gateways: the names of the registered gateways
    started,       \* the module instances that are started (component state)
    gstarted,      \* the gateways that are started (component state)
    wired,         \* the module instances that were handed the event bus and
                   \* the registry (component state: eventBus, reg)
    th,            \* the client threads: operation, position, locals, calls made
    faults,        \* callback failures still to be injected
    opsLeft,       \* operations that may still be issued
    topics,        \* bus.topics: topic -> the sinks subscribed to it
    closed,        \* bus.closed
    sinks,         \* the channels made by Subscribe, in the order made
    cl,            \* the clients of the bus: operation, position, locals
    busLeft,       \* bus operations other than Publish that may still be issued
    pubLeft,       \* Publish calls that may still be issued
    reg,           \* a registry used on its own: services and gateways
    libCall        \* the last call to the registry or the access controller

vars == <<modules, moduleStates, gateways, running, accessController,
          regServices, regGateways, started, gstarted, wired, th, faults, opsLeft,
          topics, closed, sinks, cl, busLeft, pubLeft, reg, libCall>>

\* The kernel with its registry and components, and the event bus.
kernelVars == <<modules, moduleStates, gateways, running, accessController,
                regServices, regGateways, started, gstarted, wired, th, faults,
                opsLeft>>
busVars == <<topics, closed, sinks, cl, busLeft, pubLeft>>
libVars == <<reg, libCall>>

kernelMaps == <<modules, moduleStates, gateways, running>>

-----------------------------------------------------------------------------
(* Bounds *)

\* Client threads of the concurrent specification.
NumThreads == 2
\* Operations issued in one behaviour of the concurrent specification.
MaxOps == 3
\* Operations issued in one behaviour of the sequential specification.
MaxSeqOps == 4
\* Operations issued in one behaviour of the start/stop specification.
MaxGraphOps == 2
\* Operations issued in one behaviour of the dependency specification.
MaxDepOps == 3
\* Callback failures injected in one behaviour of the start/stop and the
\* sequential specifications.
MaxFaults == 2
\* Callback failures injected in one behaviour of the concurrent specification.
MaxOpFaults == 1
\* Goroutines that use the bus concurrently.
NumClients == 2
\* Channels made by Subscribe in one behaviour.
MaxSinks == 2
\* Subscribe, cancel, Close, context cancellations and receptions in one
\* behaviour of the concurrent bus specification, and its Publish calls.
MaxBusOps == 4
MaxPublishes == 3
\* The same for the specification of the bus with a sink that is nearly full.
MaxFullOps == 3
MaxFullPublishes == 3
\* The length of the components handed to the permission helpers.
MaxComponent == 3

-----------------------------------------------------------------------------
(* Strings that the code inspects character by character *)

S_kernel_module ==
    <<"k","e","r","n","e","l",".","m","o","d","u","l","e">>
PermAdd     == S_kernel_module \o <<".","a","d","d">>
PermRemove  == S_kernel_module \o <<".","r","e","m","o","v","e">>
PermEnable  == S_kernel_module \o <<".","e","n","a","b","l","e">>
PermDisable == S_kernel_module \o <<".","d","i","s","a","b","l","e">>
RoleWildcard == S_kernel_module \o <<".","*">>
RoleReadOnly == <<"r","e","a","d","-","o","n","l","y">>
RoleOps      == <<"o","p","s">>

\* The role provider built from configuration: role name -> permissions.
RoleReader   == <<"r","e","a","d","e","r">>
rbacProvider ==
    [r \in {RoleOps, RoleReader} |->
        IF r = RoleOps THEN {PermEnable, PermDisable}
        ELSE {<<"s","e","r","v","i","c","e",".","B",".","*">>, <<"g","a","t","e","w","a","y",".","A",".","a","c","c","e","s","s">>, <<"c","o","r","e",".","c","o","n","f","i","g",".","*">>}]

\* The principals that clients put in a context; NoPrincipal is a context
\* that carries none.
NoPrincipal == [id |-> "none", roles |-> <<>>]
Principals ==
    { [id |-> "admin",    roles |-> <<RoleWildcard>>],
      [id |-> "adder",    roles |-> <<PermAdd>>],
      [id |-> "operator", roles |-> <<RoleOps>>],
      [id |-> "guest",    roles |-> <<RoleReadOnly>>] }
Contexts == Principals \cup {NoPrincipal}

PrincipalFromContext(ctx) == ctx

\* s[:n] == prefix, for n <= Len(s)
HasPrefix(s, prefix) ==
    /\ Len(s) > Len(prefix)
    /\ SubSeq(s, 1, Len(prefix)) = prefix

IsWildcard(s) ==
    /\ Len(s) > 2
    /\ SubSeq(s, Len(s) - 1, Len(s)) = <<".", "*">>

WildcardPrefix(s) == SubSeq(s, 1, Len(s) - 2)

RoleNameGrants(roleName, perm) ==
    \/ roleName = perm
    \/ IsWildcard(roleName) /\ HasPrefix(perm, WildcardPrefix(roleName))

ProviderGrants(roleName, perm) ==
    /\ roleName \in DOMAIN rbacProvider
    /\ \E rolePerm \in rbacProvider[roleName] :
          \/ rolePerm = perm
          \/ IsWildcard(rolePerm) /\ HasPrefix(perm, WildcardPrefix(rolePerm))

\* DefaultAccessController.HasPermission
DefaultHasPermission(p, perm) ==
    \/ \E i \in 1..Len(p.roles) : RoleNameGrants(p.roles[i], perm)
    \/ \E i \in 1..Len(p.roles) : ProviderGrants(p.roles[i], perm)

\* accessController.HasPermission, for the controller the kernel was built with
HasPermission(ac, p, perm) ==
    IF ac = "allowAll" THEN TRUE ELSE DefaultHasPermission(p, perm)

\* A security check that treats a context without principal as anonymous and
\* lets it pass.
SecurityCheckAnonymous(ac, ctx, perm) ==
    IF PrincipalFromContext(ctx) # NoPrincipal /\ ~HasPermission(ac, ctx, perm)
      THEN "access denied"
      ELSE "ok"

\* The security check that opens AddModule, RemoveModule, EnableModule and
\* DisableModule: "ok", or the error the operation returns.
SecurityCheck(ac, ctx, perm) ==
    IF PrincipalFromContext(ctx) = NoPrincipal THEN "security violation"
    ELSE IF ~HasPermission(ac, ctx, perm) THEN "access denied"
    ELSE "ok"

-----------------------------------------------------------------------------
(* Modules, gateways and semantic versions *)

Names  == {"A", "B", "C"}
GNames == {"G", "H"}

\* A version string that semver.NewVersion rejects.
BadVersion == <<>>
Versions == {<<1, 0, 0>>, <<2, 0, 0>>, BadVersion}

\* The constraint "^1.0.0".
Caret1 == [op |-> "^", v |-> <<1, 0, 0>>]
BadConstraint == [op |-> "?", v |-> <<>>]

\* semver.NewVersion(v) succeeds
SemverValid(v) == v # BadVersion
\* semver.NewConstraint(c) succeeds
ConstraintValid(c) == c.op = "^"

VersionLess(a, b) ==
    \/ a[1] < b[1]
    \/ a[1] = b[1] /\ a[2] < b[2]
    \/ a[1] = b[1] /\ a[2] = b[2] /\ a[3] < b[3]

\* c.Check(v) for a caret constraint with a major version above 0:
\* >= c.v and < the next major version.
ConstraintCheck(c, v) ==
    /\ ~VersionLess(v, c.v)
    /\ v[1] = c.v[1]

\* A module instance: Name(), Version(), Dependencies(); gen tells apart
\* two instances of one name (the replacement handed to ReloadModule).
Module(n, g, v, d) == [name |-> n, gen |-> g, version |-> v, deps |-> d]
NoModule == Module("-", 0, BadVersion, <<>>)

DepsOn(S) == [d \in S |-> Caret1]

\* The instances handed to AddModule and ReloadModule by the clients of the
\* concurrent specification.
ModuleInputs ==
    { Module("A", 1, <<1, 0, 0>>, DepsOn({})),
      Module("B", 1, <<1, 0, 0>>, DepsOn({"A"})),
      Module("A", 2, <<2, 0, 0>>, DepsOn({})),
      Module("B", 2, <<1, 0, 0>>, DepsOn({})) }

\* The instances a kernel is populated with in the start/stop specification:
\* every version and every set of dependencies over Names.
GraphModules(n) ==
    { Module(n, 1, v, DepsOn(S)) : v \in Versions, S \in SUBSET Names }

\* The disabled modules of the start/stop specification: a module without
\* dependencies, or one with an invalid version that depends on every name.
DisabledShapes == { <<(<<1, 0, 0>>), {}>>, <<BadVersion, Names>> }

\* k.config.Modules and k.config.Gateways: the components that have a
\* configuration slice (Configure is called for these only).
ConfigModules  == {"B"}
ConfigGateways == {"H"}

\* All the sequences that list the set S once each, in any order (the order
\* in which Go iterates over a map).
SeqPerms(S) ==
    { s \in [1..Cardinality(S) -> S] :
        \A i, j \in 1..Cardinality(S) : i # j => s[i] # s[j] }

Reverse(s) == [i \in 1..Len(s) |-> s[Len(s) + 1 - i]]

-----------------------------------------------------------------------------
(* getModuleStartupOrder *)

\* k.moduleStates[name], false for a missing key
IsEnabled(states, n) == n \in DOMAIN states /\ states[n]

\* A filter that forgets the enabled flags: every module counts.
EnabledFlagsIgnored(mods, states) == DOMAIN mods

enabledModules(mods, states) ==
    { n \in DOMAIN mods : IsEnabled(states, n) }

NoErr == <<"ok", "-">>

\* The checks made on dependency d of module m, in the code's order.
DepError(mods, en, m, d) ==
    IF d \notin en THEN <<"missing dependency", m.name>>
    ELSE IF ~ConstraintValid(m.deps[d]) THEN <<"invalid constraint", m.name>>
    ELSE IF ~SemverValid(mods[d].version) THEN <<"invalid dependency version", m.name>>
    ELSE IF ~ConstraintCheck(m.deps[d], mods[d].version) THEN <<"version conflict", m.name>>
    ELSE NoErr

\* The errors the validation loop returns when it reaches module n first.
ModuleErrors(mods, en, n) ==
    IF ~SemverValid(mods[n].version) THEN {<<"invalid version", n>>}
    ELSE { DepError(mods, en, mods[n], d) : d \in DOMAIN mods[n].deps } \ {NoErr}

ValidationErrors(mods, en) ==
    UNION { ModuleErrors(mods, en, n) : n \in en }

\* graph[d]: the dependents of d
Dependents(mods, en, d) == { n \in en : d \in DOMAIN mods[n].deps }

\* Kahn's algorithm with a FIFO queue: every result it can produce, over the
\* orders in which the adjacency lists were filled.
RECURSIVE Kahn(_, _, _, _, _)
Kahn(mods, en, queue, inDegree, ordered) ==
    IF queue = <<>> THEN {ordered}
    ELSE
      LET m    == Head(queue)
          ds   == Dependents(mods, en, m)
          deg  == [n \in en |-> IF n \in ds THEN inDegree[n] - 1 ELSE inDegree[n]]
          zero == { n \in ds : deg[n] = 0 }
      IN UNION { Kahn(mods, en, Tail(queue) \o p, deg, Append(ordered, m)) :
                   p \in SeqPerms(zero) }

KahnOrders(mods, en) ==
    LET inDegree == [n \in en |-> Cardinality(DOMAIN mods[n].deps)]
        seeds    == { n \in en : inDegree[n] = 0 }
    IN UNION { Kahn(mods, en, q, inDegree, <<>>) : q \in SeqPerms(seeds) }

\* getModuleStartupOrder without the comparison of the two lengths: what
\* Kahn's algorithm emitted is returned as the order.
StartupOrderWithoutCycleCheck(mods, states) ==
    LET en   == enabledModules(mods, states)
        errs == ValidationErrors(mods, en)
    IN IF errs # {} THEN { [err |-> e, order |-> <<>>] : e \in errs }
       ELSE { [err |-> NoErr, order |-> [i \in 1..Len(o) |-> mods[o[i]]]] :
              o \in KahnOrders(mods, en) }

\* Every result getModuleStartupOrder can return on the given maps:
\* an error, or the modules in startup order.
getModuleStartupOrder(mods, states) ==
    LET en   == enabledModules(mods, states)
        errs == ValidationErrors(mods, en)
    IN IF errs # {} THEN { [err |-> e, order |-> <<>>] : e \in errs }
       ELSE { IF Len(o) # Cardinality(en)
                THEN [err |-> <<"circular dependency", "-">>, order |-> <<>>]
                ELSE [err |-> NoErr, order |-> [i \in 1..Len(o) |-> mods[o[i]]]] :
              o \in KahnOrders(mods, en) }

\* getModuleShutdownOrder that forgets to reverse the startup order.
ShutdownOrderNotReversed(mods, states) ==
    getModuleStartupOrder(mods, states)

getModuleShutdownOrder(mods, states) ==
    { [err |-> r.err, order |-> Reverse(r.order)] :
        r \in getModuleStartupOrder(mods, states) }

-----------------------------------------------------------------------------
(* Client threads *)

\* What an operation on a module found when it was called: the enabled flag
\* of the module and the services of the registry.  It is history kept for
\* the properties; the code holds no such copy.
Snapshot(enabled, services) == [enabled |-> enabled, services |-> services]
NoSnapshot == Snapshot(FALSE, <<>>)

\* A thread between two operations.  op, ret and calls keep what the last
\* operation was, what it returned and the callbacks it invoked.
Idle ==
    [ op    |-> "none",    \* the operation in progress, or the last one
      pc    |-> "idle",    \* "idle" between operations, else the position
      ret   |-> NoErr,     \* the error returned (NoErr for success)
      ctx   |-> NoPrincipal, \* the context of a secured operation
      m     |-> NoModule,  \* the module the operation is about
      old   |-> NoModule,  \* ReloadModule: oldModule
      g     |-> "-",       \* the gateway the operation is about
      ord   |-> <<>>,      \* orderedModules / orderedModulesToStop
      gws   |-> <<>>,      \* gatewaysToStart / gatewaysToStop
      i     |-> 0,         \* loop index
      run   |-> FALSE,     \* the local copy of k.running
      pre   |-> NoSnapshot, \* history: the state the operation found
      calls |-> <<>> ]     \* the callbacks invoked so far, in order

Threads == DOMAIN th

\* A callback invocation as recorded in calls: the callback, the kind of
\* component, its name, the module instance (NoModule for a gateway) and the
\* result.
Call(cb, m, ok) ==
    [cb |-> cb, kind |-> "module", name |-> m.name, c |-> m, ok |-> ok]
GatewayCall(cb, g, ok) ==
    [cb |-> cb, kind |-> "gateway", name |-> g, c |-> NoModule, ok |-> ok]

\* The results a callback may produce: failures are injected while the
\* budget lasts.  For a callback run by safelyExecute a failure is the error
\* that safelyExecute returns, be it the callback's error or its recovered
\* panic.
Outcomes == IF faults > 0 THEN {TRUE, FALSE} ELSE {TRUE}
Inject(ok) == faults' = IF ok THEN faults ELSE faults - 1

\* The thread may issue a new operation.
CanBegin(t) == th[t].pc = "idle" /\ opsLeft > 0

Begin(op) == [Idle EXCEPT !.op = op]
Return(rec, err) == [rec EXCEPT !.pc = "idle", !.ret = err]
\* A panic that left the kernel has ended the program.
Crashed == \E t \in DOMAIN th : th[t].pc = "panicked"
Set(t, rec) == ~Crashed /\ th' = [th EXCEPT ![t] = rec]
Log(rec, call) == [rec EXCEPT !.calls = Append(@, call)]

-----------------------------------------------------------------------------
(* The components: the recording module and gateway of the kernel tests *)

ServiceOf(n) == <<n, "Service">>

\* Module.Start / Module.Stop
ModuleStart(m, ok) == started' = IF ok THEN started \cup {m} ELSE started
ModuleStop(m, ok)  == started' = IF ok THEN started \ {m} ELSE started
\* Gateway.Start / Gateway.Stop
GatewayStart(g, ok) == gstarted' = IF ok THEN gstarted \cup {g} ELSE gstarted
GatewayStop(g, ok)  == gstarted' = IF ok THEN gstarted \ {g} ELSE gstarted

\* registry.RegisterService succeeds
CanRegisterService(name) == name \notin DOMAIN regServices
\* registry.RegisterService(name, service, moduleName)
RegisterService(name, moduleName) ==
    [s \in DOMAIN regServices \cup {name} |->
        IF s = name THEN moduleName ELSE regServices[s]]
\* An unregistration that leaves every service in place.
UnregisterNothing(moduleName) == regServices

\* registry.UnregisterServicesByModule(moduleName)
UnregisterServicesByModule(moduleName) ==
    [s \in {x \in DOMAIN regServices : regServices[x] # moduleName} |->
        regServices[s]]

\* Module.RegisterServices returns nil: no failure is injected and the
\* registry accepts <name>Service.
RegisterServicesOk(m, ok) == ok /\ CanRegisterService(ServiceOf(m.name))
\* Module.RegisterServices(reg)
ModuleRegisterServices(m, ok) ==
    regServices' = IF RegisterServicesOk(m, ok)
                     THEN RegisterService(ServiceOf(m.name), m.name)
                     ELSE regServices

-----------------------------------------------------------------------------
(* kernel.Start *)

\* The position after the OnReady pass: the gateways, if any.
StartGatewaysOrDone(rec) ==
    IF Len(rec.gws) > 0 THEN [rec EXCEPT !.pc = "start_gateways", !.i = 1]
    ELSE Return(rec, NoErr)

\* A locked section that does not look at k.running before it starts.
StartLockUnguarded(t) ==
    /\ CanBegin(t)
    /\ opsLeft' = opsLeft - 1
    /\ running' = TRUE
    /\ \E gs \in SeqPerms(gateways) :
          Set(t, [Begin("Start") EXCEPT !.pc = "start_order", !.gws = gs])
    /\ UNCHANGED <<modules, moduleStates, gateways, accessController, wired, busVars, libVars,
                   regServices, regGateways, started, gstarted, faults>>

\* The locked section that opens Start.
StartLock(t) ==
    /\ CanBegin(t)
    /\ opsLeft' = opsLeft - 1
    /\ IF running
         THEN /\ Set(t, Return(Begin("Start"), <<"already running", "-">>))
              /\ UNCHANGED running
         ELSE /\ running' = TRUE
              /\ \E gs \in SeqPerms(gateways) :
                    Set(t, [Begin("Start") EXCEPT !.pc = "start_order", !.gws = gs])
    /\ UNCHANGED <<modules, moduleStates, gateways, accessController, wired, busVars, libVars,
                   regServices, regGateways, started, gstarted, faults>>

\* getModuleStartupOrder, called after the lock was released.
StartOrder(t) ==
    /\ th[t].pc = "start_order"
    /\ \E r \in getModuleStartupOrder(modules, moduleStates) :
          IF r.err # NoErr
            THEN Set(t, [th[t] EXCEPT !.pc = "start_order_failed", !.ret = r.err])
          ELSE IF Len(r.order) > 0
            THEN Set(t, [th[t] EXCEPT !.pc = "start_modules", !.ord = r.order, !.i = 1])
          ELSE Set(t, StartGatewaysOrDone(th[t]))
    /\ UNCHANGED <<kernelMaps, accessController, wired, busVars, libVars, regServices, regGateways,
                   started, gstarted, faults, opsLeft>>

\* The order could not be computed: back to not running.
StartOrderFailed(t) ==
    /\ th[t].pc = "start_order_failed"
    /\ running' = FALSE
    /\ Set(t, Return(th[t], th[t].ret))
    /\ UNCHANGED <<modules, moduleStates, gateways, accessController, wired, busVars, libVars,
                   regServices, regGateways, started, gstarted, faults, opsLeft>>

\* Start of the i-th module; on failure running is reset and the rollback
\* loop begins at the end of orderedModules.
StartModule(t) ==
    /\ th[t].pc = "start_modules"
    /\ LET rec == th[t]
           m   == rec.ord[rec.i]
       IN \E ok \in Outcomes :
            /\ Inject(ok)
            /\ ModuleStart(m, ok)
            /\ IF ok
                 THEN /\ Set(t, [Log(rec, Call("Start", m, TRUE)) EXCEPT
                                   !.i  = IF rec.i < Len(rec.ord) THEN rec.i + 1 ELSE 1,
                                   !.pc = IF rec.i < Len(rec.ord) THEN "start_modules"
                                                                 ELSE "start_register"])
                      /\ UNCHANGED running
                 ELSE /\ running' = FALSE
                      /\ Set(t, [Log(rec, Call("Start", m, FALSE)) EXCEPT
                                   !.pc = "start_rollback", !.m = m,
                                   !.i = Len(rec.ord),
                                   !.ret = <<"start module", m.name>>])
    /\ UNCHANGED <<modules, moduleStates, gateways, accessController, wired, busVars, libVars,
                   regServices, regGateways, gstarted, opsLeft>>

\* The rollback loop after a failed module Start: from the end of
\* orderedModules down to the module that failed.
StartRollback(t) ==
    /\ th[t].pc = "start_rollback"
    /\ LET rec == th[t]
       IN IF rec.i < 1 \/ rec.ord[rec.i].name = rec.m.name
            THEN /\ Set(t, Return(rec, rec.ret))
                 /\ UNCHANGED <<started, faults>>
            ELSE \E ok \in Outcomes :
                   /\ Inject(ok)
                   /\ ModuleStop(rec.ord[rec.i], ok)
                   /\ Set(t, [Log(rec, Call("Stop", rec.ord[rec.i], ok)) EXCEPT
                                !.i = rec.i - 1])
    /\ UNCHANGED <<kernelMaps, accessController, wired, busVars, libVars, regServices, regGateways,
                   gstarted, opsLeft>>

\* A pass that calls OnReady on each module right after its RegisterServices.
StartRegisterThenReady(t) ==
    /\ th[t].pc = "start_register"
    /\ LET rec == th[t]
           m   == rec.ord[rec.i]
       IN \E ok \in Outcomes :
            /\ Inject(ok)
            /\ ModuleRegisterServices(m, ok)
            /\ IF RegisterServicesOk(m, ok)
                 THEN Set(t, [Log(Log(rec, Call("RegisterServices", m, TRUE)),
                                  Call("OnReady", m, TRUE)) EXCEPT
                                !.i  = IF rec.i < Len(rec.ord) THEN rec.i + 1 ELSE 1,
                                !.pc = IF rec.i < Len(rec.ord) THEN "start_register"
                                                              ELSE "start_onready"])
                 ELSE Set(t, [Log(rec, Call("RegisterServices", m, FALSE)) EXCEPT
                                !.pc = "start_stop_all", !.m = m,
                                !.i = Len(rec.ord),
                                !.ret = <<"RegisterServices", m.name>>])
    /\ UNCHANGED <<kernelMaps, accessController, wired, busVars, libVars, regGateways, started,
                   gstarted, opsLeft>>

\* RegisterServices of the i-th module.
StartRegister(t) ==
    /\ th[t].pc = "start_register"
    /\ LET rec == th[t]
           m   == rec.ord[rec.i]
       IN \E ok \in Outcomes :
            /\ Inject(ok)
            /\ ModuleRegisterServices(m, ok)
            /\ IF RegisterServicesOk(m, ok)
                 THEN Set(t, [Log(rec, Call("RegisterServices", m, TRUE)) EXCEPT
                                !.i  = IF rec.i < Len(rec.ord) THEN rec.i + 1 ELSE 1,
                                !.pc = IF rec.i < Len(rec.ord) THEN "start_register"
                                                              ELSE "start_onready"])
                 ELSE Set(t, [Log(rec, Call("RegisterServices", m, FALSE)) EXCEPT
                                !.pc = "start_stop_all", !.m = m,
                                !.i = Len(rec.ord),
                                !.ret = <<"RegisterServices", m.name>>])
    /\ UNCHANGED <<kernelMaps, accessController, wired, busVars, libVars, regGateways, started,
                   gstarted, opsLeft>>

\* Stop of all of orderedModules in reverse order: after a failed
\* RegisterServices, and after a failed gateway Start.
StartStopAll(t) ==
    /\ th[t].pc = "start_stop_all"
    /\ LET rec == th[t]
       IN \E ok \in Outcomes :
            /\ Inject(ok)
            /\ ModuleStop(rec.ord[rec.i], ok)
            /\ Set(t, IF rec.i > 1
                        THEN [Log(rec, Call("Stop", rec.ord[rec.i], ok)) EXCEPT
                                !.i = rec.i - 1]
                        ELSE Return(Log(rec, Call("Stop", rec.ord[rec.i], ok)), rec.ret))
    /\ UNCHANGED <<kernelMaps, accessController, wired, busVars, libVars, regServices, regGateways,
                   gstarted, opsLeft>>

\* OnReady of the i-th module; on failure that module is stopped and Start
\* returns the error.
StartOnReady(t) ==
    /\ th[t].pc = "start_onready"
    /\ LET rec == th[t]
           m   == rec.ord[rec.i]
       IN \E ok \in Outcomes :
            IF ok
              THEN /\ Set(t, IF rec.i < Len(rec.ord)
                               THEN [Log(rec, Call("OnReady", m, TRUE)) EXCEPT
                                       !.i = rec.i + 1]
                               ELSE StartGatewaysOrDone(Log(rec, Call("OnReady", m, TRUE))))
                   /\ UNCHANGED <<started, faults>>
              ELSE \E stopped \in IF faults > 1 THEN {TRUE, FALSE} ELSE {TRUE} :
                   /\ faults' = faults - (IF stopped THEN 1 ELSE 2)
                   /\ ModuleStop(m, stopped)
                   /\ Set(t, Return(Log(Log(rec, Call("OnReady", m, FALSE)),
                                        Call("Stop", m, stopped)),
                                    <<"OnReady", m.name>>))
    /\ UNCHANGED <<kernelMaps, accessController, wired, busVars, libVars, regServices, regGateways,
                   gstarted, opsLeft>>

\* The modules are stopped in reverse order, if there are any, and Start
\* returns err.
StopAllOrDone(rec, err) ==
    IF Len(rec.ord) > 0
      THEN [rec EXCEPT !.pc = "start_stop_all", !.i = Len(rec.ord), !.ret = err]
      ELSE Return(rec, err)

\* Start of the i-th gateway; on failure running is reset, the gateways
\* before it are stopped, then all the modules.
StartGateway(t) ==
    /\ th[t].pc = "start_gateways"
    /\ LET rec == th[t]
           g   == rec.gws[rec.i]
       IN \E ok \in Outcomes :
            /\ Inject(ok)
            /\ GatewayStart(g, ok)
            /\ IF ok
                 THEN /\ Set(t, IF rec.i < Len(rec.gws)
                                  THEN [Log(rec, GatewayCall("Start", g, TRUE)) EXCEPT
                                          !.i = rec.i + 1]
                                  ELSE Return(Log(rec, GatewayCall("Start", g, TRUE)), NoErr))
                      /\ UNCHANGED running
                 ELSE /\ running' = FALSE
                      /\ Set(t, IF rec.i > 1
                                  THEN [Log(rec, GatewayCall("Start", g, FALSE)) EXCEPT
                                          !.pc = "start_stop_gateways", !.g = g,
                                          !.i = 1,
                                          !.ret = <<"start gateway", g>>]
                                  ELSE StopAllOrDone(Log(rec, GatewayCall("Start", g, FALSE)),
                                                     <<"start gateway", g>>))
    /\ UNCHANGED <<modules, moduleStates, gateways, accessController, wired, busVars, libVars,
                   regServices, regGateways, started, opsLeft>>

\* Stop of the gateways of gatewaysToStart that precede the one that failed.
StartStopGateways(t) ==
    /\ th[t].pc = "start_stop_gateways"
    /\ LET rec == th[t]
           g   == rec.gws[rec.i]
       IN \E ok \in Outcomes :
            /\ Inject(ok)
            /\ GatewayStop(g, ok)
            /\ Set(t, IF rec.gws[rec.i + 1] = rec.g
                        THEN StopAllOrDone(Log(rec, GatewayCall("Stop", g, ok)), rec.ret)
                        ELSE [Log(rec, GatewayCall("Stop", g, ok)) EXCEPT !.i = rec.i + 1])
    /\ UNCHANGED <<kernelMaps, accessController, wired, busVars, libVars, regServices, regGateways,
                   started, opsLeft>>

-----------------------------------------------------------------------------
(* kernel.Stop *)

\* firstErr after a Stop callback returned
FirstErr(firstErr, ok, err) ==
    IF ~ok /\ firstErr = NoErr THEN err ELSE firstErr

\* The position after the gateways were stopped: the modules, if any.
StopModulesOrDone(rec) ==
    IF Len(rec.ord) > 0 THEN [rec EXCEPT !.pc = "stop_modules", !.i = 1]
    ELSE Return(rec, rec.ret)

\* A Stop whose locked section hands over to the module pass at once and
\* never stops a gateway.
StopLockModulesFirst(t) ==
    /\ CanBegin(t)
    /\ opsLeft' = opsLeft - 1
    /\ IF ~running
         THEN /\ Set(t, Return(Begin("Stop"), <<"not running", "-">>))
              /\ UNCHANGED running
         ELSE /\ running' = FALSE
              /\ \E r \in getModuleShutdownOrder(modules, moduleStates),
                    gs \in SeqPerms(gateways) :
                    Set(t, StopModulesOrDone([Begin("Stop") EXCEPT
                                                !.ord = r.order, !.gws = gs]))
    /\ UNCHANGED <<modules, moduleStates, gateways, accessController, wired, busVars, libVars,
                   regServices, regGateways, started, gstarted, faults>>

\* The locked section that opens Stop: the shutdown order is computed under
\* the lock; when that fails orderedModulesToStop is nil.
StopLock(t) ==
    /\ CanBegin(t)
    /\ opsLeft' = opsLeft - 1
    /\ IF ~running
         THEN /\ Set(t, Return(Begin("Stop"), <<"not running", "-">>))
              /\ UNCHANGED running
         ELSE /\ running' = FALSE
              /\ \E r \in getModuleShutdownOrder(modules, moduleStates),
                    gs \in SeqPerms(gateways) :
                    LET rec == [Begin("Stop") EXCEPT !.ord = r.order, !.gws = gs]
                    IN Set(t, IF Len(gs) > 0
                                THEN [rec EXCEPT !.pc = "stop_gateways", !.i = 1]
                                ELSE StopModulesOrDone(rec))
    /\ UNCHANGED <<modules, moduleStates, gateways, accessController, wired, busVars, libVars,
                   regServices, regGateways, started, gstarted, faults>>

\* Stop of the i-th gateway.
StopGateway(t) ==
    /\ th[t].pc = "stop_gateways"
    /\ LET rec == th[t]
           g   == rec.gws[rec.i]
       IN \E ok \in Outcomes :
            /\ Inject(ok)
            /\ GatewayStop(g, ok)
            /\ LET rec2 == [Log(rec, GatewayCall("Stop", g, ok)) EXCEPT
                              !.ret = FirstErr(rec.ret, ok, <<"stop gateway", g>>)]
               IN Set(t, IF rec.i < Len(rec.gws)
                           THEN [rec2 EXCEPT !.i = rec.i + 1]
                           ELSE StopModulesOrDone(rec2))
    /\ UNCHANGED <<kernelMaps, accessController, wired, busVars, libVars, regServices, regGateways,
                   started, opsLeft>>

\* Stop of the i-th module of orderedModulesToStop.
StopModule(t) ==
    /\ th[t].pc = "stop_modules"
    /\ LET rec == th[t]
           m   == rec.ord[rec.i]
       IN \E ok \in Outcomes :
            /\ Inject(ok)
            /\ ModuleStop(m, ok)
            /\ LET rec2 == [Log(rec, Call("Stop", m, ok)) EXCEPT
                              !.ret = FirstErr(rec.ret, ok, <<"stop module", m.name>>)]
               IN Set(t, IF rec.i < Len(rec.ord)
                           THEN [rec2 EXCEPT !.i = rec.i + 1]
                           ELSE Return(rec2, rec2.ret))
    /\ UNCHANGED <<kernelMaps, accessController, wired, busVars, libVars, regServices, regGateways,
                   gstarted, opsLeft>>

-----------------------------------------------------------------------------
(* Go maps *)

MapPut(f, k, v) == [x \in DOMAIN f \cup {k} |-> IF x = k THEN v ELSE f[x]]
MapDelete(f, k) == [x \in DOMAIN f \ {k} |-> f[x]]

\* The names that clients pass to the module operations.
InputNames == { m.name : m \in ModuleInputs }

-----------------------------------------------------------------------------
(* kernel.AddModule *)

\* The security check and the locked section that registers the module.
AddModuleBegin(t) ==
    /\ CanBegin(t)
    /\ opsLeft' = opsLeft - 1
    /\ \E m \in ModuleInputs, ctx \in Contexts :
         LET rec == [Begin("AddModule") EXCEPT !.m = m, !.ctx = ctx]
             sec == SecurityCheck(accessController, ctx, PermAdd)
         IN IF sec # "ok"
              THEN /\ Set(t, Return(rec, <<sec, m.name>>))
                   /\ UNCHANGED <<modules, moduleStates>>
            ELSE IF m.name \in DOMAIN modules
              THEN /\ Set(t, Return(rec, <<"duplicate name", m.name>>))
                   /\ UNCHANGED <<modules, moduleStates>>
            ELSE /\ modules' = MapPut(modules, m.name, m)
                 /\ moduleStates' = MapPut(moduleStates, m.name, TRUE)
                 /\ Set(t, [rec EXCEPT !.pc = "add_load", !.run = running])
    /\ UNCHANGED <<gateways, running, accessController, wired, busVars, libVars, regServices,
                   regGateways, started, gstarted, faults>>

\* SetEventBus, SetRegistry, OnLoad and Configure.  A failed OnLoad deletes the
\* entry of k.modules; a failed Configure returns at once.
AddModuleLoad(t) ==
    /\ th[t].pc = "add_load"
    /\ LET rec  == th[t]
           m    == rec.m
           rec1 == Log(Log(rec, Call("SetEventBus", m, TRUE)),
                       Call("SetRegistry", m, TRUE))
           rec2 == Log(rec1, Call("OnLoad", m, TRUE))
       IN \/ /\ FALSE \in Outcomes
             /\ faults' = faults - 1
             /\ modules' = MapDelete(modules, m.name)
             /\ Set(t, Return(Log(rec1, Call("OnLoad", m, FALSE)),
                              <<"OnLoad", m.name>>))
          \/ /\ FALSE \in Outcomes
             /\ m.name \in ConfigModules
             /\ faults' = faults - 1
             /\ Set(t, Return(Log(rec2, Call("Configure", m, FALSE)),
                              <<"configure module", m.name>>))
             /\ UNCHANGED modules
          \/ /\ LET rec3 == IF m.name \in ConfigModules
                              THEN Log(rec2, Call("Configure", m, TRUE))
                              ELSE rec2
                IN Set(t, IF rec.run THEN [rec3 EXCEPT !.pc = "add_start"]
                                     ELSE Return(rec3, NoErr))
             /\ UNCHANGED <<modules, faults>>
    /\ wired' = wired \cup {th[t].m}
    /\ UNCHANGED <<moduleStates, gateways, running, accessController,
                   busVars, libVars,
                   regServices, regGateways, started, gstarted, opsLeft>>

\* The kernel was running: Start; on failure the entry of k.modules is deleted.
AddModuleStart(t) ==
    /\ th[t].pc = "add_start"
    /\ LET rec == th[t]
           m   == rec.m
       IN \E ok \in Outcomes :
            /\ Inject(ok)
            /\ ModuleStart(m, ok)
            /\ IF ok
                 THEN /\ Set(t, [Log(rec, Call("Start", m, TRUE)) EXCEPT
                                   !.pc = "add_register"])
                      /\ UNCHANGED modules
                 ELSE /\ modules' = MapDelete(modules, m.name)
                      /\ Set(t, Return(Log(rec, Call("Start", m, FALSE)),
                                       <<"start module", m.name>>))
    /\ UNCHANGED <<moduleStates, gateways, running, accessController, wired, busVars, libVars,
                   regServices, regGateways, gstarted, opsLeft>>

\* RegisterServices and OnReady; their errors are logged only.
AddModuleRegister(t) ==
    /\ th[t].pc = "add_register"
    /\ LET rec == th[t]
           m   == rec.m
       IN \E ok \in Outcomes :
            /\ Inject(ok)
            /\ ModuleRegisterServices(m, ok)
            /\ Set(t, Return(Log(Log(rec, Call("RegisterServices", m,
                                               RegisterServicesOk(m, ok))),
                                 Call("OnReady", m, TRUE)),
                             NoErr))
    /\ UNCHANGED <<kernelMaps, accessController, wired, busVars, libVars, regGateways, started,
                   gstarted, opsLeft>>

-----------------------------------------------------------------------------
(* kernel.RemoveModule *)

RemoveModuleBegin(t) ==
    /\ CanBegin(t)
    /\ opsLeft' = opsLeft - 1
    /\ \E name \in InputNames, ctx \in Contexts :
         LET rec == [Begin("RemoveModule") EXCEPT !.ctx = ctx]
             sec == SecurityCheck(accessController, ctx, PermRemove)
         IN IF sec # "ok"
              THEN /\ Set(t, Return(rec, <<sec, name>>))
                   /\ UNCHANGED <<modules, moduleStates>>
            ELSE IF name \notin DOMAIN modules
              THEN /\ Set(t, Return(rec, <<"not found", name>>))
                   /\ UNCHANGED <<modules, moduleStates>>
            ELSE /\ modules' = MapDelete(modules, name)
                 /\ moduleStates' = MapDelete(moduleStates, name)
                 /\ Set(t, [rec EXCEPT !.pc = "remove_unregister",
                                       !.m = modules[name], !.run = running,
                                       !.pre = Snapshot(IsEnabled(moduleStates, name),
                                                        regServices)])
    /\ UNCHANGED <<gateways, running, accessController, wired, busVars, libVars, regServices,
                   regGateways, started, gstarted, faults>>

\* registry.UnregisterServicesByModule(name), called without k.mu.  The
\* services of the module are deleted; when a gateway is registered under the
\* module's name the method calls UnregisterGateway with r.mu held and waits
\* there for r.mu.
RemoveModuleUnregister(t) ==
    /\ th[t].pc = "remove_unregister"
    /\ regServices' = UnregisterServicesByModule(th[t].m.name)
    /\ Set(t, IF th[t].m.name \in regGateways
                THEN [th[t] EXCEPT !.pc = "blocked"]
              ELSE IF th[t].run THEN [th[t] EXCEPT !.pc = "remove_stop"]
              ELSE Return(th[t], NoErr))
    /\ UNCHANGED <<kernelMaps, accessController, wired, busVars, libVars, regGateways, started,
                   gstarted, faults, opsLeft>>

\* The kernel was running: Stop; on failure the module is put back, enabled.
RemoveModuleStop(t) ==
    /\ th[t].pc = "remove_stop"
    /\ LET rec == th[t]
           m   == rec.m
       IN \E ok \in Outcomes :
            /\ Inject(ok)
            /\ ModuleStop(m, ok)
            /\ IF ok
                 THEN /\ Set(t, Return(Log(rec, Call("Stop", m, TRUE)), NoErr))
                      /\ UNCHANGED <<modules, moduleStates>>
                 ELSE /\ modules' = MapPut(modules, m.name, m)
                      /\ moduleStates' = MapPut(moduleStates, m.name, TRUE)
                      /\ Set(t, Return(Log(rec, Call("Stop", m, FALSE)),
                                       <<"stop module", m.name>>))
    /\ UNCHANGED <<gateways, running, accessController, wired, busVars, libVars, regServices,
                   regGateways, gstarted, opsLeft>>

-----------------------------------------------------------------------------
(* kernel.EnableModule and kernel.DisableModule: the lock is held throughout *)

\* An EnableModule that sets the flag and never starts the module.
EnableModuleFlagOnly(t) ==
    /\ CanBegin(t)
    /\ opsLeft' = opsLeft - 1
    /\ \E name \in InputNames, ctx \in Contexts :
         LET rec == [Begin("EnableModule") EXCEPT
                       !.ctx = ctx,
                       !.pre = Snapshot(IsEnabled(moduleStates, name), regServices)]
             sec == SecurityCheck(accessController, ctx, PermEnable)
         IN IF sec # "ok"
              THEN /\ Set(t, Return(rec, <<sec, name>>))
                   /\ UNCHANGED moduleStates
            ELSE IF name \notin DOMAIN modules
              THEN /\ Set(t, Return(rec, <<"not found", name>>))
                   /\ UNCHANGED moduleStates
            ELSE /\ moduleStates' = MapPut(moduleStates, name, TRUE)
                 /\ Set(t, Return([rec EXCEPT !.m = modules[name]], NoErr))
    /\ UNCHANGED <<modules, gateways, running, accessController, wired, busVars, libVars, regServices,
                   regGateways, started, gstarted, faults>>

EnableModule(t) ==
    /\ CanBegin(t)
    /\ opsLeft' = opsLeft - 1
    /\ \E name \in InputNames, ctx \in Contexts :
         LET rec == [Begin("EnableModule") EXCEPT
                       !.ctx = ctx,
                       !.pre = Snapshot(IsEnabled(moduleStates, name), regServices)]
             sec == SecurityCheck(accessController, ctx, PermEnable)
         IN IF sec # "ok"
              THEN /\ Set(t, Return(rec, <<sec, name>>))
                   /\ UNCHANGED <<moduleStates, started, faults>>
            ELSE IF name \notin DOMAIN modules
              THEN /\ Set(t, Return(rec, <<"not found", name>>))
                   /\ UNCHANGED <<moduleStates, started, faults>>
            ELSE /\ moduleStates' = MapPut(moduleStates, name, TRUE)
                 /\ IF running
                      THEN \E ok \in Outcomes :
                             /\ Inject(ok)
                             /\ ModuleStart(modules[name], ok)
                             /\ Set(t, Return(Log([rec EXCEPT !.m = modules[name]],
                                                  Call("Start", modules[name], ok)),
                                              IF ok THEN NoErr
                                              ELSE <<"start enabled module", name>>))
                      ELSE /\ Set(t, Return([rec EXCEPT !.m = modules[name]], NoErr))
                           /\ UNCHANGED <<started, faults>>
    /\ UNCHANGED <<modules, gateways, running, accessController, wired, busVars, libVars, regServices,
                   regGateways, gstarted>>

DisableModule(t) ==
    /\ CanBegin(t)
    /\ opsLeft' = opsLeft - 1
    /\ \E name \in InputNames, ctx \in Contexts :
         LET rec == [Begin("DisableModule") EXCEPT
                       !.ctx = ctx,
                       !.pre = Snapshot(IsEnabled(moduleStates, name), regServices)]
             sec == SecurityCheck(accessController, ctx, PermDisable)
         IN IF sec # "ok"
              THEN /\ Set(t, Return(rec, <<sec, name>>))
                   /\ UNCHANGED <<moduleStates, started, faults>>
            ELSE IF name \notin DOMAIN modules
              THEN /\ Set(t, Return(rec, <<"not found", name>>))
                   /\ UNCHANGED <<moduleStates, started, faults>>
            ELSE /\ moduleStates' = MapPut(moduleStates, name, FALSE)
                 /\ IF running
                      THEN \E ok \in Outcomes :
                             /\ Inject(ok)
                             /\ ModuleStop(modules[name], ok)
                             /\ Set(t, Return(Log([rec EXCEPT !.m = modules[name]],
                                                  Call("Stop", modules[name], ok)),
                                              IF ok THEN NoErr
                                              ELSE <<"stop disabled module", name>>))
                      ELSE /\ Set(t, Return([rec EXCEPT !.m = modules[name]], NoErr))
                           /\ UNCHANGED <<started, faults>>
    /\ UNCHANGED <<modules, gateways, running, accessController, wired, busVars, libVars, regServices,
                   regGateways, gstarted>>

-----------------------------------------------------------------------------
(* kernel.ReloadModule *)

\* The locked lookup of the module to replace.
ReloadModuleBegin(t) ==
    /\ CanBegin(t)
    /\ opsLeft' = opsLeft - 1
    /\ \E m \in ModuleInputs :
         LET rec == [Begin("ReloadModule") EXCEPT !.m = m]
         IN IF m.name \notin DOMAIN modules
              THEN Set(t, Return(rec, <<"not found", m.name>>))
              ELSE Set(t, [rec EXCEPT !.pc = "reload_stop", !.old = modules[m.name]])
    /\ UNCHANGED <<kernelMaps, accessController, wired, busVars, libVars, regServices, regGateways,
                   started, gstarted, faults>>

\* Stop of the old module; on failure ReloadModule returns.
ReloadModuleStop(t) ==
    /\ th[t].pc = "reload_stop"
    /\ LET rec == th[t]
       IN \E ok \in Outcomes :
            /\ Inject(ok)
            /\ ModuleStop(rec.old, ok)
            /\ Set(t, IF ok
                        THEN [Log(rec, Call("Stop", rec.old, TRUE)) EXCEPT
                                !.pc = "reload_replace"]
                        ELSE Return(Log(rec, Call("Stop", rec.old, FALSE)),
                                    <<"stop old module", rec.m.name>>))
    /\ UNCHANGED <<kernelMaps, accessController, wired, busVars, libVars, regServices, regGateways,
                   gstarted, opsLeft>>

\* The locked replacement, then Configure of the new module.
ReloadModuleReplace(t) ==
    /\ th[t].pc = "reload_replace"
    /\ modules' = MapPut(modules, th[t].m.name, th[t].m)
    /\ LET rec == th[t]
           m   == rec.m
       IN IF m.name \in ConfigModules
            THEN \E ok \in Outcomes :
                   /\ Inject(ok)
                   /\ Set(t, IF ok
                               THEN [Log(rec, Call("Configure", m, TRUE)) EXCEPT
                                       !.pc = "reload_start"]
                               ELSE [Log(rec, Call("Configure", m, FALSE)) EXCEPT
                                       !.pc = "reload_restore",
                                       !.ret = <<"configure new module", m.name>>])
            ELSE /\ Set(t, [rec EXCEPT !.pc = "reload_start"])
                 /\ UNCHANGED faults
    /\ UNCHANGED <<moduleStates, gateways, running, accessController, wired, busVars, libVars,
                   regServices, regGateways, started, gstarted, opsLeft>>

\* A failed Configure after which the new module is left in k.modules.
ReloadModuleRestoreSkipped(t) ==
    /\ th[t].pc = "reload_restore"
    /\ Set(t, [th[t] EXCEPT !.pc = "reload_rollback"])
    /\ UNCHANGED <<kernelMaps, accessController, wired, busVars, libVars, regServices, regGateways,
                   started, gstarted, faults, opsLeft>>

\* Configure failed: the old module is put back under the lock.
ReloadModuleRestore(t) ==
    /\ th[t].pc = "reload_restore"
    /\ modules' = MapPut(modules, th[t].m.name, th[t].old)
    /\ Set(t, [th[t] EXCEPT !.pc = "reload_rollback"])
    /\ UNCHANGED <<moduleStates, gateways, running, accessController, wired, busVars, libVars,
                   regServices, regGateways, started, gstarted, faults, opsLeft>>

\* Start of the new module, then OnReady (its error is logged only); on a
\* failed Start the old module is put back under the lock.
ReloadModuleStart(t) ==
    /\ th[t].pc = "reload_start"
    /\ LET rec == th[t]
           m   == rec.m
       IN \E ok \in Outcomes :
            /\ Inject(ok)
            /\ ModuleStart(m, ok)
            /\ IF ok
                 THEN /\ Set(t, Return(Log(Log(rec, Call("Start", m, TRUE)),
                                           Call("OnReady", m, TRUE)), NoErr))
                      /\ UNCHANGED modules
                 ELSE /\ modules' = MapPut(modules, m.name, rec.old)
                      /\ Set(t, [Log(rec, Call("Start", m, FALSE)) EXCEPT
                                   !.pc = "reload_rollback",
                                   !.ret = <<"start new module", m.name>>])
    /\ UNCHANGED <<moduleStates, gateways, running, accessController, wired, busVars, libVars,
                   regServices, regGateways, gstarted, opsLeft>>

\* The rollback: Start of the old module.
ReloadModuleRollback(t) ==
    /\ th[t].pc = "reload_rollback"
    /\ LET rec == th[t]
       IN \E ok \in Outcomes :
            /\ Inject(ok)
            /\ ModuleStart(rec.old, ok)
            /\ Set(t, Return(Log(rec, Call("Start", rec.old, ok)),
                             IF ok THEN rec.ret
                             ELSE <<rec.ret[1], "rollback failed">>))
    /\ UNCHANGED <<kernelMaps, accessController, wired, busVars, libVars, regServices, regGateways,
                   gstarted, opsLeft>>

-----------------------------------------------------------------------------
(* kernel.AddGateway *)

\* The locked section: duplicate check, Configure, registration.
AddGatewayBegin(t) ==
    /\ CanBegin(t)
    /\ opsLeft' = opsLeft - 1
    /\ \E g \in GNames :
         LET rec == [Begin("AddGateway") EXCEPT !.g = g]
         IN IF g \in gateways
              THEN /\ Set(t, Return(rec, <<"duplicate name", g>>))
                   /\ UNCHANGED <<gateways, faults>>
            ELSE \/ /\ g \in ConfigGateways
                    /\ FALSE \in Outcomes
                    /\ faults' = faults - 1
                    /\ Set(t, Return(Log(rec, GatewayCall("Configure", g, FALSE)),
                                     <<"configure gateway", g>>))
                    /\ UNCHANGED gateways
                 \/ /\ gateways' = gateways \cup {g}
                    /\ Set(t, [(IF g \in ConfigGateways
                                  THEN Log(rec, GatewayCall("Configure", g, TRUE))
                                  ELSE rec)
                                EXCEPT !.pc = "addgw_register", !.run = running])
                    /\ UNCHANGED faults
    /\ UNCHANGED <<modules, moduleStates, running, accessController, wired, busVars, libVars,
                   regServices, regGateways, started, gstarted>>

\* SetEventBus and registry.RegisterGateway.
AddGatewayRegister(t) ==
    /\ th[t].pc = "addgw_register"
    /\ LET rec == Log(th[t], GatewayCall("SetEventBus", th[t].g, TRUE))
           g   == rec.g
       IN IF g \in regGateways
            THEN /\ Set(t, Return(rec, <<"register gateway", g>>))
                 /\ UNCHANGED regGateways
            ELSE /\ regGateways' = regGateways \cup {g}
                 /\ Set(t, IF rec.run THEN [rec EXCEPT !.pc = "addgw_start"]
                                      ELSE Return(rec, NoErr))
    /\ UNCHANGED <<kernelMaps, accessController, wired, busVars, libVars, regServices, started,
                   gstarted, faults, opsLeft>>

\* The kernel was running: Start; on failure the entry of k.gateways is
\* deleted under the lock.
AddGatewayStart(t) ==
    /\ th[t].pc = "addgw_start"
    /\ LET rec == th[t]
           g   == rec.g
       IN \E ok \in Outcomes :
            /\ Inject(ok)
            /\ GatewayStart(g, ok)
            /\ IF ok
                 THEN /\ Set(t, Return(Log(rec, GatewayCall("Start", g, TRUE)), NoErr))
                      /\ UNCHANGED gateways
                 ELSE /\ gateways' = gateways \ {g}
                      /\ Set(t, [Log(rec, GatewayCall("Start", g, FALSE)) EXCEPT
                                   !.pc = "addgw_unregister",
                                   !.ret = <<"start gateway", g>>])
    /\ UNCHANGED <<modules, moduleStates, running, accessController, wired, busVars, libVars,
                   regServices, regGateways, started, opsLeft>>

AddGatewayUnregister(t) ==
    /\ th[t].pc = "addgw_unregister"
    /\ regGateways' = regGateways \ {th[t].g}
    /\ Set(t, Return(th[t], th[t].ret))
    /\ UNCHANGED <<kernelMaps, accessController, wired, busVars, libVars, regServices, started,
                   gstarted, faults, opsLeft>>

-----------------------------------------------------------------------------
(* kernel.RemoveGateway *)

RemoveGatewayBegin(t) ==
    /\ CanBegin(t)
    /\ opsLeft' = opsLeft - 1
    /\ \E g \in GNames :
         LET rec == [Begin("RemoveGateway") EXCEPT !.g = g]
         IN IF g \notin gateways
              THEN /\ Set(t, Return(rec, <<"not found", g>>))
                   /\ UNCHANGED gateways
              ELSE /\ gateways' = gateways \ {g}
                   /\ Set(t, [rec EXCEPT !.pc = "rmgw_unregister", !.run = running])
    /\ UNCHANGED <<modules, moduleStates, running, accessController, wired, busVars, libVars,
                   regServices, regGateways, started, gstarted, faults>>

RemoveGatewayUnregister(t) ==
    /\ th[t].pc = "rmgw_unregister"
    /\ regGateways' = regGateways \ {th[t].g}
    /\ Set(t, IF th[t].run THEN [th[t] EXCEPT !.pc = "rmgw_stop"]
                           ELSE Return(th[t], NoErr))
    /\ UNCHANGED <<kernelMaps, accessController, wired, busVars, libVars, regServices, started,
                   gstarted, faults, opsLeft>>

\* The kernel was running: Stop; on failure the gateway is put back under
\* the lock.
RemoveGatewayStop(t) ==
    /\ th[t].pc = "rmgw_stop"
    /\ LET rec == th[t]
           g   == rec.g
       IN \E ok \in Outcomes :
            /\ Inject(ok)
            /\ GatewayStop(g, ok)
            /\ IF ok
                 THEN /\ Set(t, Return(Log(rec, GatewayCall("Stop", g, TRUE)), NoErr))
                      /\ UNCHANGED gateways
                 ELSE /\ gateways' = gateways \cup {g}
                      /\ Set(t, [Log(rec, GatewayCall("Stop", g, FALSE)) EXCEPT
                                   !.pc = "rmgw_reregister",
                                   !.ret = <<"stop gateway", g>>])
    /\ UNCHANGED <<modules, moduleStates, running, accessController, wired, busVars, libVars,
                   regServices, regGateways, started, opsLeft>>

\* registry.RegisterGateway again; its error is dropped.
RemoveGatewayReregister(t) ==
    /\ th[t].pc = "rmgw_reregister"
    /\ regGateways' = regGateways \cup {th[t].g}
    /\ Set(t, Return(th[t], th[t].ret))
    /\ UNCHANGED <<kernelMaps, accessController, wired, busVars, libVars, regServices, started,
                   gstarted, faults, opsLeft>>

-----------------------------------------------------------------------------
(* Panics of the callbacks that the kernel calls without safelyExecute *)

\* The operation of the thread ends in the panic of the callback.
Panicked(rec, call) ==
    [Log(rec, call) EXCEPT !.pc = "panicked", !.ret = <<"panic", call.name>>]

\* The thread is about to call a callback directly (not through
\* safelyExecute) as the first thing of its next step.
AtDirectCall(rec) ==
    \/ rec.pc = "start_rollback" /\ rec.i >= 1 /\ rec.ord[rec.i].name # rec.m.name
    \/ rec.pc \in {"start_stop_all", "start_stop_gateways", "reload_rollback",
                   "addgw_start", "rmgw_stop", "add_load", "addgw_register"}

\* That callback, as a failed call.
DirectCall(rec) ==
    CASE rec.pc \in {"start_rollback", "start_stop_all"} ->
            Call("Stop", rec.ord[rec.i], FALSE)
      [] rec.pc = "start_stop_gateways" -> GatewayCall("Stop", rec.gws[rec.i], FALSE)
      [] rec.pc = "reload_rollback"     -> Call("Start", rec.old, FALSE)
      [] rec.pc = "addgw_start"         -> GatewayCall("Start", rec.g, FALSE)
      [] rec.pc = "rmgw_stop"           -> GatewayCall("Stop", rec.g, FALSE)
      [] rec.pc = "add_load"            -> Call("SetEventBus", rec.m, FALSE)
      [] rec.pc = "addgw_register"      -> GatewayCall("SetEventBus", rec.g, FALSE)

\* The callback panics: nothing recovers, the panic leaves the kernel.
CallbackPanics(t) ==
    /\ AtDirectCall(th[t])
    /\ faults > 0
    /\ faults' = faults - 1
    /\ Set(t, Panicked(th[t], DirectCall(th[t])))
    /\ UNCHANGED <<kernelMaps, accessController, wired, busVars, libVars, regServices, regGateways,
                   started, gstarted, opsLeft>>

\* Start: OnReady of the i-th module failed and the Stop that follows panics.
StartOnReadyStopPanics(t) ==
    /\ th[t].pc = "start_onready"
    /\ faults > 1
    /\ faults' = faults - 2
    /\ LET rec == th[t]
           m   == rec.ord[rec.i]
       IN Set(t, Panicked(Log(rec, Call("OnReady", m, FALSE)), Call("Stop", m, FALSE)))
    /\ UNCHANGED <<kernelMaps, accessController, wired, busVars, libVars, regServices, regGateways,
                   started, gstarted, opsLeft>>

\* EnableModule on a running kernel: m.Start panics after the flag was set
\* (the deferred Unlock releases the lock).
EnableModulePanics(t) ==
    /\ CanBegin(t)
    /\ running
    /\ faults > 0
    /\ faults' = faults - 1
    /\ opsLeft' = opsLeft - 1
    /\ \E name \in InputNames \cap DOMAIN modules, ctx \in Contexts :
         /\ SecurityCheck(accessController, ctx, PermEnable) = "ok"
         /\ moduleStates' = MapPut(moduleStates, name, TRUE)
         /\ Set(t, Panicked([Begin("EnableModule") EXCEPT
                                !.ctx = ctx, !.m = modules[name],
                                !.pre = Snapshot(IsEnabled(moduleStates, name),
                                                 regServices)],
                             Call("Start", modules[name], FALSE)))
    /\ UNCHANGED <<modules, gateways, running, accessController, wired, busVars, libVars, regServices,
                   regGateways, started, gstarted>>

\* DisableModule on a running kernel: m.Stop panics after the flag was reset.
DisableModulePanics(t) ==
    /\ CanBegin(t)
    /\ running
    /\ faults > 0
    /\ faults' = faults - 1
    /\ opsLeft' = opsLeft - 1
    /\ \E name \in InputNames \cap DOMAIN modules, ctx \in Contexts :
         /\ SecurityCheck(accessController, ctx, PermDisable) = "ok"
         /\ moduleStates' = MapPut(moduleStates, name, FALSE)
         /\ Set(t, Panicked([Begin("DisableModule") EXCEPT
                                !.ctx = ctx, !.m = modules[name],
                                !.pre = Snapshot(IsEnabled(moduleStates, name),
                                                 regServices)],
                             Call("Stop", modules[name], FALSE)))
    /\ UNCHANGED <<modules, gateways, running, accessController, wired, busVars, libVars, regServices,
                   regGateways, started, gstarted>>

\* AddGateway: Configure panics inside the locked section.
AddGatewayConfigurePanics(t) ==
    /\ CanBegin(t)
    /\ faults > 0
    /\ faults' = faults - 1
    /\ opsLeft' = opsLeft - 1
    /\ \E g \in ConfigGateways \ gateways :
         Set(t, Panicked([Begin("AddGateway") EXCEPT !.g = g],
                         GatewayCall("Configure", g, FALSE)))
    /\ UNCHANGED <<kernelMaps, accessController, wired, busVars, libVars, regServices, regGateways,
                   started, gstarted>>

Panics ==
    \/ \E t \in Threads : CallbackPanics(t)
    \/ \E t \in Threads : StartOnReadyStopPanics(t)
    \/ \E t \in Threads : EnableModulePanics(t)
    \/ \E t \in Threads : DisableModulePanics(t)
    \/ \E t \in Threads : AddGatewayConfigurePanics(t)

-----------------------------------------------------------------------------
(* The registry and the access controller used on their own *)

\* A service or gateway value that is nil.
NoInstance == "nil"

\* NewDefaultRegistry
NewDefaultRegistry == [services |-> <<>>, gateways |-> <<>>]

\* The last call made to the access controller or to the registry, with its
\* arguments and its result.  pc is "blocked" when the call has not returned.
NoCall ==
    [ op |-> "none", pc |-> "done", ctx |-> NoPrincipal, arg |-> <<>>,
      ret |-> FALSE, val |-> NoInstance, err |-> "nil" ]

\* A registry and a controller that nobody calls.
LibUnused == reg = NewDefaultRegistry /\ libCall = NoCall

-----------------------------------------------------------------------------
(* The event bus (events.bus) *)

Topics == {"t", "u"}

\* make(chan TypedEvent, 16)
SinkCapacity == 16

\* The payload that client p publishes with its n-th Publish.
Event(p, n) == [p |-> p, n |-> n]

\* A channel made by Subscribe: buf is what it holds, closes counts the
\* close(ch) statements executed on it (a second one panics), got is what
\* its subscriber has received so far (history).
Sink(topic, open) ==
    [ topic  |-> topic,
      buf    |-> <<>>,
      open   |-> open,
      closes |-> IF open THEN 0 ELSE 1,
      got    |-> <<>> ]

\* close(ch)
CloseChan(s) == [s EXCEPT !.open = FALSE, !.closes = @ + 1]

SinkIds == 1..Len(sinks)

\* History: what a Publish found when it took its snapshot.
BusSnapshot(isClosed, dead) == [closed |-> isClosed, dead |-> dead]
NoBusSnapshot == BusSnapshot(FALSE, {})

\* A client goroutine of the bus between two calls.  op, topic and sent keep
\* what the last call was and did.
BusIdle ==
    [ op    |-> "none",   \* the call in progress, or the last one
      pc    |-> "idle",   \* "idle" between calls, "send" inside Publish's loop
      topic |-> "-",      \* the topic of the call
      n     |-> 0,        \* the number of Publish calls made so far
      chs   |-> <<>>,     \* Publish: the snapshot of the subscribers
      i     |-> 0,        \* Publish: loop index
      done  |-> FALSE,    \* Publish: ctx is cancelled
      s     |-> 0,        \* the sink Subscribe returned or cancel was for
      pre   |-> NoBusSnapshot, \* history: what Publish found
      sent  |-> <<>> ]    \* history: what the select did for each sink

Clients == DOMAIN cl

\* events.New, with the clients and the calls they may make.
BusNew(clients, ops, pubs) ==
    /\ topics = <<>>
    /\ closed = FALSE
    /\ sinks = <<>>
    /\ cl = [c \in clients |-> BusIdle]
    /\ busLeft = ops
    /\ pubLeft = pubs

\* A send on a closed channel has ended the program.
BusCrashed == \E c \in DOMAIN cl : cl[c].pc = "panicked"

BusCall(c) == ~BusCrashed /\ cl[c].pc = "idle" /\ busLeft > 0

BusSet(c, rec) == cl' = [cl EXCEPT ![c] = rec]

\* The subscribers of a topic: b.topics[topic], nil when there is no entry.
Subs(tps, topic) == IF topic \in DOMAIN tps THEN tps[topic] ELSE {}

\* A Subscribe that does not look at b.closed.
SubscribeIgnoresClosed(c) ==
    /\ BusCall(c)
    /\ Len(sinks) < MaxSinks
    /\ busLeft' = busLeft - 1
    /\ \E topic \in Topics :
         LET ch == Len(sinks) + 1
         IN /\ BusSet(c, [BusIdle EXCEPT !.op = "Subscribe", !.topic = topic,
                                        !.s = ch, !.n = cl[c].n])
            /\ sinks' = Append(sinks, Sink(topic, TRUE))
            /\ topics' = MapPut(topics, topic, Subs(topics, topic) \cup {ch})
    /\ UNCHANGED <<kernelVars, libVars, closed, pubLeft>>

\* Subscribe(topic)
Subscribe(c) ==
    /\ BusCall(c)
    /\ Len(sinks) < MaxSinks
    /\ busLeft' = busLeft - 1
    /\ \E topic \in Topics :
         LET ch == Len(sinks) + 1
         IN /\ BusSet(c, [BusIdle EXCEPT !.op = "Subscribe", !.topic = topic,
                                        !.s = ch, !.n = cl[c].n])
            /\ IF closed
                 THEN /\ sinks' = Append(sinks, Sink(topic, FALSE))
                      /\ UNCHANGED topics
                 ELSE /\ sinks' = Append(sinks, Sink(topic, TRUE))
                      /\ topics' = MapPut(topics, topic,
                                          Subs(topics, topic) \cup {ch})
    /\ UNCHANGED <<kernelVars, libVars, closed, pubLeft>>

\* A cancel closure that leaves the entry of a topic without subscribers in
\* the table.
CancelKeepsTopic(c) ==
    /\ BusCall(c)
    /\ busLeft' = busLeft - 1
    /\ \E ch \in SinkIds :
         LET topic == sinks[ch].topic
         IN /\ BusSet(c, [BusIdle EXCEPT !.op = "cancel", !.topic = topic,
                                        !.s = ch, !.n = cl[c].n])
            /\ IF topic \in DOMAIN topics /\ ch \in topics[topic]
                 THEN /\ sinks' = [sinks EXCEPT ![ch] = CloseChan(@)]
                      /\ topics' = [topics EXCEPT ![topic] = @ \ {ch}]
                 ELSE UNCHANGED <<sinks, topics>>
    /\ UNCHANGED <<kernelVars, libVars, closed, pubLeft>>

\* A cancel closure that closes its sink whether or not it is still
\* subscribed.
CancelAlwaysCloses(c) ==
    /\ BusCall(c)
    /\ busLeft' = busLeft - 1
    /\ \E ch \in SinkIds :
         LET topic == sinks[ch].topic
         IN /\ BusSet(c, [BusIdle EXCEPT !.op = "cancel", !.topic = topic,
                                        !.s = ch, !.n = cl[c].n])
            /\ sinks' = [sinks EXCEPT ![ch] = CloseChan(@)]
            /\ topics' = IF topic \notin DOMAIN topics THEN topics
                         ELSE IF topics[topic] \subseteq {ch}
                                THEN MapDelete(topics, topic)
                                ELSE [topics EXCEPT ![topic] = @ \ {ch}]
    /\ UNCHANGED <<kernelVars, libVars, closed, pubLeft>>

\* The cancel closure that Subscribe returned for the sink ch.
Cancel(c) ==
    /\ BusCall(c)
    /\ busLeft' = busLeft - 1
    /\ \E ch \in SinkIds :
         LET topic == sinks[ch].topic
         IN /\ BusSet(c, [BusIdle EXCEPT !.op = "cancel", !.topic = topic,
                                        !.s = ch, !.n = cl[c].n])
            /\ IF topic \in DOMAIN topics /\ ch \in topics[topic]
                 THEN /\ sinks' = [sinks EXCEPT ![ch] = CloseChan(@)]
                      /\ topics' = IF topics[topic] = {ch}
                                     THEN MapDelete(topics, topic)
                                     ELSE [topics EXCEPT ![topic] = @ \ {ch}]
                 ELSE UNCHANGED <<sinks, topics>>
    /\ UNCHANGED <<kernelVars, libVars, closed, pubLeft>>

\* Close()
Close(c) ==
    /\ BusCall(c)
    /\ busLeft' = busLeft - 1
    /\ BusSet(c, [BusIdle EXCEPT !.op = "Close", !.n = cl[c].n])
    /\ IF closed
         THEN UNCHANGED <<closed, sinks, topics>>
         ELSE /\ closed' = TRUE
              /\ sinks' = [ch \in SinkIds |->
                             IF ch \in UNION { topics[tp] : tp \in DOMAIN topics }
                               THEN CloseChan(sinks[ch]) ELSE sinks[ch]]
              /\ topics' = <<>>
    /\ UNCHANGED <<kernelVars, libVars, pubLeft>>

\* Publish up to the RUnlock: the subscribers of the topic are copied in the
\* order the map iteration yields them.  The context may be cancelled
\* already.
PublishBegin(c) ==
    /\ ~BusCrashed
    /\ cl[c].pc = "idle"
    /\ pubLeft > 0
    /\ pubLeft' = pubLeft - 1
    /\ \E topic \in Topics, done \in BOOLEAN :
       \E chs \in SeqPerms(Subs(topics, topic)) :
         LET rec == [BusIdle EXCEPT
                       !.op = "Publish", !.topic = topic, !.n = cl[c].n + 1,
                       !.chs = chs, !.done = done,
                       !.pre = BusSnapshot(closed,
                                           { ch \in SinkIds : ~sinks[ch].open })]
         IN BusSet(c, IF chs = <<>> THEN rec
                      ELSE [rec EXCEPT !.pc = "send", !.i = 1])
    /\ UNCHANGED <<kernelVars, libVars, topics, closed, sinks, busLeft>>

\* A channel that hands over what was sent last first.
SendLifo(buf, e) == <<e>> \o buf

\* ch <- payload, when it proceeds: the payload goes behind what the channel
\* holds.
Send(buf, e) == Append(buf, e)

\* A select whose send proceeds whenever the channel is open.
SelectCasesUnbounded(sink, done) ==
    (IF sink.open THEN {"send"} ELSE {"panic"}) \cup (IF done THEN {"done"} ELSE {})

\* The cases of Publish's select that can proceed for the sink: the send when
\* the buffer has room, and also when the channel is closed (it panics);
\* ctx.Done() when the context is cancelled; the default case when no other
\* can.
SelectCases(sink, done) ==
    LET ready == (IF ~sink.open THEN {"panic"}
                  ELSE IF Len(sink.buf) < SinkCapacity THEN {"send"} ELSE {})
                 \cup (IF done THEN {"done"} ELSE {})
    IN IF ready = {} THEN {"default"} ELSE ready

\* What Publish records for a sink (history).
Sent(ch, sink, case) == [ch |-> ch, len |-> Len(sink.buf), case |-> case]

\* One iteration of Publish's loop: the select for the i-th sink of the
\* snapshot.
PublishSend(c) ==
    /\ ~BusCrashed
    /\ cl[c].pc = "send"
    /\ LET rec  == cl[c]
           ch   == rec.chs[rec.i]
           next == IF rec.i < Len(rec.chs) THEN [rec EXCEPT !.i = rec.i + 1]
                   ELSE [rec EXCEPT !.pc = "idle"]
       IN \E case \in SelectCases(sinks[ch], rec.done) :
            LET log(r) == [r EXCEPT !.sent = Append(@, Sent(ch, sinks[ch], case))]
            IN CASE case = "send" ->
                      /\ sinks' = [sinks EXCEPT
                                     ![ch].buf = Send(@, Event(c, rec.n))]
                      /\ BusSet(c, log(next))
                 [] case = "default" ->
                      /\ BusSet(c, log(next))
                      /\ UNCHANGED sinks
                 [] case = "done" ->
                      /\ BusSet(c, log([rec EXCEPT !.pc = "idle"]))
                      /\ UNCHANGED sinks
                 [] case = "panic" ->
                      /\ BusSet(c, log([rec EXCEPT !.pc = "panicked"]))
                      /\ UNCHANGED sinks
    /\ UNCHANGED <<kernelVars, libVars, topics, closed, busLeft, pubLeft>>

\* The context of a Publish in progress is cancelled.
CtxCancel(c) ==
    /\ ~BusCrashed
    /\ cl[c].pc = "send"
    /\ ~cl[c].done
    /\ busLeft > 0
    /\ busLeft' = busLeft - 1
    /\ BusSet(c, [cl[c] EXCEPT !.done = TRUE])
    /\ UNCHANGED <<kernelVars, libVars, topics, closed, sinks, pubLeft>>

\* The subscriber of a sink receives from it.
Receive(ch) ==
    /\ ~BusCrashed
    /\ busLeft > 0
    /\ sinks[ch].buf # <<>>
    /\ busLeft' = busLeft - 1
    /\ sinks' = [sinks EXCEPT ![ch].buf = Tail(@),
                              ![ch].got = Append(@, Head(sinks[ch].buf))]
    /\ UNCHANGED <<kernelVars, libVars, topics, closed, cl, pubLeft>>

NextBus ==
    \/ \E c \in Clients : Subscribe(c)
    \/ \E c \in Clients : Cancel(c)
    \/ \E c \in Clients : Close(c)
    \/ \E c \in Clients : PublishBegin(c)
    \/ \E c \in Clients : PublishSend(c)
    \/ \E c \in Clients : CtxCancel(c)
    \/ \E ch \in SinkIds : Receive(ch)

\* The kernel that owns the bus, with nothing registered and no caller.
KernelUnused(ac) ==
    /\ modules = <<>>
    /\ moduleStates = <<>>
    /\ gateways = {}
    /\ running = FALSE
    /\ accessController = ac
    /\ regServices = <<>>
    /\ regGateways = {}
    /\ started = {}
    /\ gstarted = {}
    /\ wired = {}
    /\ th = <<>>
    /\ faults = 0
    /\ opsLeft = 0

\* A new bus used by NumClients concurrent goroutines.
InitBus ==
    /\ KernelUnused("allowAll")
    /\ BusNew(1..NumClients, MaxBusOps, MaxPublishes)
    /\ LibUnused

SpecBus == InitBus /\ [][NextBus]_vars

\* A bus used by one goroutine, which has subscribed to topic "t" and
\* published k events there that the subscriber has not received yet.
InitBusFull ==
    /\ KernelUnused("allowAll")
    /\ LibUnused
    /\ \E k \in (SinkCapacity - 1)..SinkCapacity :
         /\ sinks = << [Sink("t", TRUE) EXCEPT
                          !.buf = [j \in 1..k |-> Event(1, j)]] >>
         /\ cl = [c \in {1} |-> [BusIdle EXCEPT !.op = "Publish", !.topic = "t",
                                                !.n = k, !.chs = <<1>>, !.i = 1,
                                                !.sent = << [ch |-> 1, len |-> k - 1,
                                                             case |-> "send"] >>]]
    /\ topics = [tp \in {"t"} |-> {1}]
    /\ closed = FALSE
    /\ busLeft = MaxFullOps
    /\ pubLeft = MaxFullPublishes

SpecBusFull == InitBusFull /\ [][NextBus]_vars

-----------------------------------------------------------------------------
(* The access controller's helpers (auth.AccessController) *)

\* The characters that permissionSanitizer leaves alone: [a-zA-Z0-9.-]
SafeChars ==
    {"a", "b", "c", "d", "e", "f", "g", "h", "i", "j", "k", "l", "m", "n", "o", "p", "q", "r", "s", "t", "u", "v", "w", "x", "y", "z"}
    \cup {"A", "B", "C", "D", "E", "F", "G", "H", "I", "J", "K", "L", "M", "N", "O", "P", "Q", "R", "S", "T", "U", "V", "W", "X", "Y", "Z"}
    \cup {"0", "1", "2", "3", "4", "5", "6", "7", "8", "9"}
    \cup {".", "-"}

\* The string without its leading run of characters outside SafeChars.
RECURSIVE SkipUnsafe(_)
SkipUnsafe(s) ==
    IF s = <<>> \/ Head(s) \in SafeChars THEN s ELSE SkipUnsafe(Tail(s))

\* A sanitizer that hands the component back as it came.
NoSanitizer(s) == s

\* permissionSanitizer.ReplaceAllString(component, "_"): the expression is
\* [^a-zA-Z0-9.-]+, so every maximal run of other characters becomes one "_".
RECURSIVE sanitizePermissionComponent(_)
sanitizePermissionComponent(s) ==
    IF s = <<>> THEN <<>>
    ELSE IF Head(s) \in SafeChars
      THEN <<Head(s)>> \o sanitizePermissionComponent(Tail(s))
      ELSE <<"_">> \o sanitizePermissionComponent(SkipUnsafe(Tail(s)))

S_core_log            == <<"c","o","r","e",".","l","o","g">>
S_core_metrics_access == <<"c","o","r","e",".","m","e","t","r","i","c","s",".","a","c","c","e","s","s">>
S_core_events_publish   == <<"c","o","r","e",".","e","v","e","n","t","s",".","p","u","b","l","i","s","h",".">>
S_core_events_subscribe == <<"c","o","r","e",".","e","v","e","n","t","s",".","s","u","b","s","c","r","i","b","e",".">>
S_core_config_access  == <<"c","o","r","e",".","c","o","n","f","i","g",".","a","c","c","e","s","s",".">>
S_core_module_reload  == <<"c","o","r","e",".","m","o","d","u","l","e",".","r","e","l","o","a","d",".">>

\* The helpers of the controller; those of allowAllAccessController return
\* true, as its HasPermission does.
CanLog(ac, p) == HasPermission(ac, p, S_core_log)
CanAccessMetrics(ac, p) == HasPermission(ac, p, S_core_metrics_access)
CanPublishEvent(ac, p, eventType) ==
    IF ac = "allowAll" THEN TRUE
    ELSE HasPermission(ac, p, S_core_events_publish
                                \o sanitizePermissionComponent(eventType))
CanSubscribeEvent(ac, p, eventType) ==
    IF ac = "allowAll" THEN TRUE
    ELSE HasPermission(ac, p, S_core_events_subscribe
                                \o sanitizePermissionComponent(eventType))
CanAccessConfig(ac, p, configKey) ==
    IF ac = "allowAll" THEN TRUE
    ELSE HasPermission(ac, p, S_core_config_access
                                \o sanitizePermissionComponent(configKey))
CanReloadModule(ac, p, moduleToReload) ==
    IF ac = "allowAll" THEN TRUE
    ELSE HasPermission(ac, p, S_core_module_reload
                                \o sanitizePermissionComponent(moduleToReload))

\* The decision of the helper op for the principal p and the argument arg
\* (a permission for HasPermission, a component for the last four).
Decide(ac, op, p, arg) ==
    CASE op = "HasPermission"     -> HasPermission(ac, p, arg)
      [] op = "CanLog"            -> CanLog(ac, p)
      [] op = "CanAccessMetrics"  -> CanAccessMetrics(ac, p)
      [] op = "CanPublishEvent"   -> CanPublishEvent(ac, p, arg)
      [] op = "CanSubscribeEvent" -> CanSubscribeEvent(ac, p, arg)
      [] op = "CanAccessConfig"   -> CanAccessConfig(ac, p, arg)
      [] op = "CanReloadModule"   -> CanReloadModule(ac, p, arg)

ComponentHelpers ==
    {"CanPublishEvent", "CanSubscribeEvent", "CanAccessConfig", "CanReloadModule"}
Helpers == {"HasPermission", "CanLog", "CanAccessMetrics"} \cup ComponentHelpers

\* NewDefaultAccessController(provider); NoProvider is the nil provider.
NoProvider == <<>>
\* A constructor that wraps the nil provider like any other.
NewDefaultAccessControllerAlways(provider) == "rbac"

NewDefaultAccessController(provider) ==
    IF provider = NoProvider THEN "allowAll" ELSE "rbac"

\* kernel.New(cfg, ac): the controller the kernel works with; NoController
\* is the nil controller.
NoController == "nil"
NewKernelController(ac) ==
    IF ac = NoController THEN NewDefaultAccessController(NoProvider) ELSE ac

\* The user-supplied components: the strings of up to MaxComponent
\* characters over a letter, the dot, the hyphen and three characters that
\* the sanitizer replaces.
ComponentChars == {"a", ".", "-", "_", "*", "@"}
Components ==
    UNION { [1..n -> ComponentChars] : n \in 0..MaxComponent }

\* The principals of the permission checks.
AuthPrincipals ==
    Principals \cup
    { [id |-> "nobody",    roles |-> <<>>],
      [id |-> "publisher", roles |-> <<S_core_events_publish \o <<"a","_","a">>>>],
      [id |-> "events",    roles |-> <<<<"c","o","r","e",".","e","v","e","n","t","s",".","*">>>>],
      [id |-> "auditor",   roles |-> <<RoleReader, RoleReadOnly>>],
      [id |-> "dotstar",   roles |-> <<<<".","*">>>>] }

\* The permissions asked for.
AuthPermissions ==
    { PermAdd, PermEnable, S_kernel_module, S_kernel_module \o <<"s">>,
      S_kernel_module \o <<".">>, S_core_log, S_core_metrics_access,
      <<"c","o","r","e",".","m","e","t","r","i","c","s","a","c","c","e","s","s">>, <<"c","o","r","e",".","c","o","n","f","i","g">>, <<".","x">>, RoleOps, RoleReadOnly,
      S_core_events_publish \o <<"a","_","a">>, S_core_events_publish \o <<"a">> }

-----------------------------------------------------------------------------
(* The registry (registry.DefaultRegistry) *)

S_service == <<"s","e","r","v","i","c","e">>
S_gateway == <<"g","a","t","e","w","a","y">>
S_access  == <<"a","c","c","e","s","s">>

\* fmt.Sprintf("service.%s.%s.access", entry.moduleName, name)
ServicePermission(moduleName, name) ==
    S_service \o <<".">> \o moduleName \o <<".">> \o name \o <<".">> \o S_access
\* fmt.Sprintf("gateway.%s.access", name)
GatewayPermission(name) ==
    S_gateway \o <<".">> \o name \o <<".">> \o S_access

\* serviceEntry
ServiceEntry(service, moduleName) == [service |-> service, moduleName |-> moduleName]

\* The names and values that the clients of the registry use: a gateway may
\* carry the name of a module.
ModuleNames  == {<<"A">>, <<"B">>}
ServiceNames == {<<"s">>, <<"t">>}
GatewayNames == {<<"G">>, <<"A">>}
Instances    == {"i1", "i2"}

\* The principals that look services and gateways up.
RegistryPrincipals ==
    { [id |-> "svc-A-s",  roles |-> <<ServicePermission(<<"A">>, <<"s">>)>>],
      [id |-> "svc-A",    roles |-> <<<<"s","e","r","v","i","c","e",".","A",".","*">>>>],
      [id |-> "gw-G",     roles |-> <<GatewayPermission(<<"G">>)>>],
      [id |-> "auditor",  roles |-> <<RoleReader, RoleReadOnly>>],
      [id |-> "nobody",   roles |-> <<>>] }
RegistryContexts == RegistryPrincipals \cup {NoPrincipal}

\* What a call returns: the value (NoInstance for nil) and the error
\* ("nil" for none).
Returned(val, err) == [val |-> val, err |-> err]

\* A GetService that asks for the permission of a gateway of that name.
GetServiceAsGateway(r, ac, ctx, name) ==
    IF name \notin DOMAIN r.services THEN Returned(NoInstance, "not found")
    ELSE IF PrincipalFromContext(ctx) = NoPrincipal
      THEN Returned(NoInstance, "no principal")
    ELSE IF ~HasPermission(ac, PrincipalFromContext(ctx), GatewayPermission(name))
      THEN Returned(NoInstance, "not authorized")
    ELSE Returned(r.services[name].service, "nil")

\* GetService(ctx, name)
GetService(r, ac, ctx, name) ==
    IF name \notin DOMAIN r.services THEN Returned(NoInstance, "not found")
    ELSE IF PrincipalFromContext(ctx) = NoPrincipal
      THEN Returned(NoInstance, "no principal")
    ELSE IF ~HasPermission(ac, PrincipalFromContext(ctx),
                           ServicePermission(r.services[name].moduleName, name))
      THEN Returned(NoInstance, "not authorized")
    ELSE Returned(r.services[name].service, "nil")

\* GetGateway(ctx, name)
GetGateway(r, ac, ctx, name) ==
    IF name \notin DOMAIN r.gateways THEN Returned(NoInstance, "not found")
    ELSE IF PrincipalFromContext(ctx) = NoPrincipal
      THEN Returned(NoInstance, "no principal")
    ELSE IF ~HasPermission(ac, PrincipalFromContext(ctx), GatewayPermission(name))
      THEN Returned(NoInstance, "not authorized")
    ELSE Returned(r.gateways[name].service, "nil")

\* The registry's lock is free: no call is stuck inside it.
RegistryFree == libCall.pc # "blocked"

RegistryCall(op, ctx, name, res) ==
    libCall' = [NoCall EXCEPT !.op = op, !.ctx = ctx, !.arg = name,
                           !.ret = (res.err = "nil"), !.val = res.val,
                           !.err = res.err]

\* RegisterService(name, service, moduleName)
RegistryRegisterService ==
    /\ RegistryFree
    /\ \E name \in ServiceNames, service \in Instances, moduleName \in ModuleNames :
         IF name \in DOMAIN reg.services
           THEN /\ RegistryCall("RegisterService", NoPrincipal, name,
                                Returned(NoInstance, "already registered"))
                /\ UNCHANGED reg
           ELSE /\ RegistryCall("RegisterService", NoPrincipal, name,
                                Returned(NoInstance, "nil"))
                /\ reg' = [reg EXCEPT !.services =
                             MapPut(@, name, ServiceEntry(service, moduleName))]
    /\ UNCHANGED <<kernelVars, busVars>>

\* RegisterGateway(name, gateway): the entry's moduleName is the name.
RegistryRegisterGateway ==
    /\ RegistryFree
    /\ \E name \in GatewayNames, gateway \in Instances :
         IF name \in DOMAIN reg.gateways
           THEN /\ RegistryCall("RegisterGateway", NoPrincipal, name,
                                Returned(NoInstance, "already registered"))
                /\ UNCHANGED reg
           ELSE /\ RegistryCall("RegisterGateway", NoPrincipal, name,
                                Returned(NoInstance, "nil"))
                /\ reg' = [reg EXCEPT !.gateways =
                             MapPut(@, name, ServiceEntry(gateway, name))]
    /\ UNCHANGED <<kernelVars, busVars>>

\* UnregisterService(name)
RegistryUnregisterService ==
    /\ RegistryFree
    /\ \E name \in ServiceNames :
         /\ RegistryCall("UnregisterService", NoPrincipal, name,
                         Returned(NoInstance, "nil"))
         /\ reg' = [reg EXCEPT !.services = MapDelete(@, name)]
    /\ UNCHANGED <<kernelVars, busVars>>

\* UnregisterGateway(name)
RegistryUnregisterGateway ==
    /\ RegistryFree
    /\ \E name \in GatewayNames :
         /\ RegistryCall("UnregisterGateway", NoPrincipal, name,
                         Returned(NoInstance, "nil"))
         /\ reg' = [reg EXCEPT !.gateways = MapDelete(@, name)]
    /\ UNCHANGED <<kernelVars, busVars>>

\* UnregisterServicesByModule(moduleName): with r.mu held, the services of
\* the module are deleted; for a gateway entry of that moduleName the method
\* calls UnregisterGateway, which locks r.mu again and never gets it.
RegistryUnregisterServicesByModule ==
    /\ RegistryFree
    /\ \E moduleName \in ModuleNames :
         LET rest == { n \in DOMAIN reg.services :
                         reg.services[n].moduleName # moduleName }
             hit  == \E g \in DOMAIN reg.gateways :
                         reg.gateways[g].moduleName = moduleName
         IN /\ reg' = [reg EXCEPT !.services = [n \in rest |-> reg.services[n]]]
            /\ libCall' = [NoCall EXCEPT !.op = "UnregisterServicesByModule",
                                      !.arg = moduleName,
                                      !.pc = IF hit THEN "blocked" ELSE "done"]
    /\ UNCHANGED <<kernelVars, busVars>>

RegistryGetService ==
    /\ RegistryFree
    /\ \E ctx \in RegistryContexts, name \in ServiceNames \cup GatewayNames :
         RegistryCall("GetService", ctx, name,
                      GetService(reg, accessController, ctx, name))
    /\ UNCHANGED <<kernelVars, busVars, reg>>

RegistryGetGateway ==
    /\ RegistryFree
    /\ \E ctx \in RegistryContexts, name \in ServiceNames \cup GatewayNames :
         RegistryCall("GetGateway", ctx, name,
                      GetGateway(reg, accessController, ctx, name))
    /\ UNCHANGED <<kernelVars, busVars, reg>>

NextRegistry ==
    \/ RegistryRegisterService
    \/ RegistryRegisterGateway
    \/ RegistryUnregisterService
    \/ RegistryUnregisterGateway
    \/ RegistryUnregisterServicesByModule
    \/ RegistryGetService
    \/ RegistryGetGateway

\* The registry of a new kernel, built with either controller.
InitRegistry ==
    /\ \E ac \in {"allowAll", "rbac"} : KernelUnused(ac)
    /\ BusNew({}, 0, 0)
    /\ LibUnused

SpecRegistry == InitRegistry /\ [][NextRegistry]_vars

\* The permission check of a behaviour: a helper of the controller is applied
\* to a principal and a permission or a component.
AccessCheck ==
    /\ libCall = NoCall
    /\ \E op \in Helpers, p \in AuthPrincipals :
         \E arg \in (IF op \in ComponentHelpers THEN Components
                     ELSE IF op = "HasPermission" THEN AuthPermissions
                     ELSE {<<>>}) :
            libCall' = [NoCall EXCEPT !.op = op, !.ctx = p, !.arg = arg,
                                   !.ret = Decide(accessController, op, p, arg)]
    /\ UNCHANGED <<kernelVars, busVars, reg>>

\* The controller of a kernel that was given none, the one built without
\* provider or the one built with the provider of the configuration.
InitAuth ==
    /\ \E ac \in {NoController, NewDefaultAccessController(NoProvider),
                  NewDefaultAccessController(rbacProvider)} :
         KernelUnused(NewKernelController(ac))
    /\ BusNew({}, 0, 0)
    /\ LibUnused

SpecAuth == InitAuth /\ [][AccessCheck]_vars

-----------------------------------------------------------------------------
(* Specifications *)

\* A kernel that was populated while stopped (AddModule, DisableModule and
\* AddGateway on a kernel that is not running invoke no Start), then started
\* and stopped by one client.
InitGraph ==
    /\ \E S \in SUBSET Names :
         \E v \in [S -> Versions], d \in [S -> SUBSET Names], e \in [S -> BOOLEAN] :
            /\ \A n \in S : ~e[n] => <<v[n], d[n]>> \in DisabledShapes
            /\ modules = [n \in S |-> Module(n, 1, v[n], DepsOn(d[n]))]
            /\ moduleStates = e
    /\ gateways = GNames
    /\ regGateways = gateways
    /\ running = FALSE
    /\ accessController = "allowAll"
    /\ regServices = <<>>
    /\ started = {}
    /\ gstarted = {}
    /\ wired = { modules[n] : n \in DOMAIN modules }
    /\ BusNew({}, 0, 0)
    /\ LibUnused
    /\ th = [t \in {1} |-> Idle]
    /\ faults = MaxFaults
    /\ opsLeft = MaxGraphOps

KernelStart ==
    \/ \E t \in Threads : StartLock(t)
    \/ \E t \in Threads : StartOrder(t)
    \/ \E t \in Threads : StartOrderFailed(t)
    \/ \E t \in Threads : StartModule(t)
    \/ \E t \in Threads : StartRollback(t)
    \/ \E t \in Threads : StartRegister(t)
    \/ \E t \in Threads : StartStopAll(t)
    \/ \E t \in Threads : StartOnReady(t)
    \/ \E t \in Threads : StartGateway(t)
    \/ \E t \in Threads : StartStopGateways(t)

KernelStop ==
    \/ \E t \in Threads : StopLock(t)
    \/ \E t \in Threads : StopGateway(t)
    \/ \E t \in Threads : StopModule(t)

NextGraph == KernelStart \/ KernelStop

SpecGraph == InitGraph /\ [][NextGraph]_vars

ModuleOps ==
    \/ \E t \in Threads : AddModuleBegin(t)
    \/ \E t \in Threads : AddModuleLoad(t)
    \/ \E t \in Threads : AddModuleStart(t)
    \/ \E t \in Threads : AddModuleRegister(t)
    \/ \E t \in Threads : RemoveModuleBegin(t)
    \/ \E t \in Threads : RemoveModuleUnregister(t)
    \/ \E t \in Threads : RemoveModuleStop(t)
    \/ \E t \in Threads : EnableModule(t)
    \/ \E t \in Threads : DisableModule(t)
    \/ \E t \in Threads : ReloadModuleBegin(t)
    \/ \E t \in Threads : ReloadModuleStop(t)
    \/ \E t \in Threads : ReloadModuleReplace(t)
    \/ \E t \in Threads : ReloadModuleRestore(t)
    \/ \E t \in Threads : ReloadModuleStart(t)
    \/ \E t \in Threads : ReloadModuleRollback(t)

GatewayOps ==
    \/ \E t \in Threads : AddGatewayBegin(t)
    \/ \E t \in Threads : AddGatewayRegister(t)
    \/ \E t \in Threads : AddGatewayStart(t)
    \/ \E t \in Threads : AddGatewayUnregister(t)
    \/ \E t \in Threads : RemoveGatewayBegin(t)
    \/ \E t \in Threads : RemoveGatewayUnregister(t)
    \/ \E t \in Threads : RemoveGatewayStop(t)
    \/ \E t \in Threads : RemoveGatewayReregister(t)

\* The kernel as kernel.New returns it, used by NumThreads concurrent clients.
Init ==
    /\ modules = <<>>
    /\ moduleStates = <<>>
    /\ gateways = {}
    /\ running = FALSE
    /\ accessController \in {"allowAll", "rbac"}
    /\ regServices = <<>>
    /\ regGateways = {}
    /\ started = {}
    /\ gstarted = {}
    /\ wired = {}
    /\ BusNew({}, 0, 0)
    /\ LibUnused
    /\ th = [t \in 1..NumThreads |-> Idle]
    /\ faults = MaxOpFaults
    /\ opsLeft = MaxOps

Next == KernelStart \/ KernelStop \/ ModuleOps \/ GatewayOps

Spec == Init /\ [][Next]_vars

\* The same kernel used by one client, one operation after the other.
InitSeq ==
    /\ modules = <<>>
    /\ moduleStates = <<>>
    /\ gateways = {}
    /\ running = FALSE
    /\ accessController \in {"allowAll", "rbac"}
    /\ regServices = <<>>
    /\ regGateways = {}
    /\ started = {}
    /\ gstarted = {}
    /\ wired = {}
    /\ BusNew({}, 0, 0)
    /\ LibUnused
    /\ th = [t \in {1} |-> Idle]
    /\ faults = MaxFaults
    /\ opsLeft = MaxSeqOps

SpecSeq == InitSeq /\ [][Next]_vars

\* The shapes of the enabled modules of the dependency specification: version
\* 1.0.0 and at most one dependency.
EnabledShapes(n) ==
    { <<(<<1, 0, 0>>), S>> : S \in {{}} \cup { {x} : x \in Names \ {n} } }

\* Kernels in which some enabled module declares a dependency on a module
\* that is absent or disabled, used by one client that calls Start and
\* EnableModule.
InitDeps ==
    /\ \E S \in SUBSET Names :
         \E v \in [S -> Versions], d \in [S -> SUBSET Names], e \in [S -> BOOLEAN] :
            /\ \A n \in S : <<v[n], d[n]>> \in
                                (IF e[n] THEN EnabledShapes(n) ELSE DisabledShapes)
            /\ \E n \in S : e[n] /\ \E x \in d[n] : ~(x \in S /\ e[x])
            /\ modules = [n \in S |-> Module(n, 1, v[n], DepsOn(d[n]))]
            /\ moduleStates = e
    /\ gateways = GNames
    /\ regGateways = gateways
    /\ running = FALSE
    /\ accessController = "allowAll"
    /\ regServices = <<>>
    /\ started = {}
    /\ gstarted = {}
    /\ wired = { modules[n] : n \in DOMAIN modules }
    /\ BusNew({}, 0, 0)
    /\ LibUnused
    /\ th = [t \in {1} |-> Idle]
    /\ faults = MaxOpFaults
    /\ opsLeft = MaxDepOps

NextDeps ==
    \/ KernelStart
    \/ \E t \in Threads : EnableModule(t)

SpecDeps == InitDeps /\ [][NextDeps]_vars

-----------------------------------------------------------------------------
(* Properties *)

\* The positions of calls at which callback cb was invoked on a module, and
\* on a gateway.
ModuleCallsAt(calls, cb) ==
    { i \in 1..Len(calls) : calls[i].kind = "module" /\ calls[i].cb = cb }
GatewayCallsAt(calls, cb) ==
    { i \in 1..Len(calls) : calls[i].kind = "gateway" /\ calls[i].cb = cb }

\* C1: in a kernel Start, the Start callback of a module is invoked only
\* after the Start of each module it declares as a dependency has returned
\* successfully; in a kernel Stop, the Stop of a module is invoked before the
\* Stop of each module it depends on, and once the Stop has returned each of
\* these dependencies has been stopped.
C1_DependencyOrder ==
    \A t \in Threads :
      LET calls == th[t].calls
      IN /\ th[t].op = "Start" =>
              \A j \in ModuleCallsAt(calls, "Start") :
                \A d \in DOMAIN calls[j].c.deps :
                  \E i \in ModuleCallsAt(calls, "Start") :
                    i < j /\ calls[i].name = d /\ calls[i].ok
         /\ th[t].op = "Stop" =>
              /\ \A i, j \in ModuleCallsAt(calls, "Stop") :
                   i < j => calls[i].name \notin DOMAIN calls[j].c.deps
              /\ th[t].pc = "idle" =>
                   \A i \in ModuleCallsAt(calls, "Stop") :
                     \A d \in DOMAIN calls[i].c.deps :
                       \E j \in ModuleCallsAt(calls, "Stop") :
                         i < j /\ calls[j].name = d

\* C1 witness: a Stop that follows a Start without any failure has returned
\* after stopping three modules, two of which depend on a module stopped
\* after them.
C1_Witness ==
    \E t \in Threads :
      LET calls == th[t].calls
      IN /\ th[t].op = "Stop" /\ th[t].pc = "idle" /\ th[t].ret = NoErr
         /\ faults = MaxFaults
         /\ Cardinality(ModuleCallsAt(calls, "Stop")) = 3
         /\ \E i, j, k \in ModuleCallsAt(calls, "Stop") :
              /\ i < j /\ j < k
              /\ calls[j].name \in DOMAIN calls[i].c.deps
              /\ calls[k].name \in DOMAIN calls[j].c.deps

\* C2 (as stated): in a run without callback failures, no module is started
\* or stopped while a gateway is started, whatever operations are applied.
C2_NeverWhileGatewayStarted ==
    [][ (faults' = MaxFaults /\ started' # started) => gstarted = {} ]_vars

\* C2 (amended): within one kernel Start, a gateway Start is invoked only
\* after the Start of every module of the startup order has returned
\* successfully; within one kernel Stop, a module Stop is invoked only after
\* the Stop of every gateway of the snapshot was invoked.
C2_WithinStartAndStop ==
    \A t \in Threads :
      LET calls == th[t].calls
      IN /\ th[t].op = "Start" =>
              \A j \in GatewayCallsAt(calls, "Start") :
                /\ \A i \in ModuleCallsAt(calls, "Start") : i < j
                /\ \A k \in 1..Len(th[t].ord) :
                     \E i \in ModuleCallsAt(calls, "Start") :
                       i < j /\ calls[i].c = th[t].ord[k] /\ calls[i].ok
         /\ th[t].op = "Stop" =>
              \A j \in ModuleCallsAt(calls, "Stop") :
                /\ \A i \in GatewayCallsAt(calls, "Stop") : i < j
                /\ \A k \in 1..Len(th[t].gws) :
                     \E i \in GatewayCallsAt(calls, "Stop") :
                       i < j /\ calls[i].name = th[t].gws[k]

\* C2 witness: a kernel Stop has stopped a started gateway and then a started
\* module.
C2_Witness ==
    \E t \in Threads :
      LET calls == th[t].calls
      IN /\ th[t].op = "Stop" /\ th[t].pc = "idle" /\ th[t].ret = NoErr
         /\ faults = MaxFaults
         /\ GatewayCallsAt(calls, "Stop") # {}
         /\ ModuleCallsAt(calls, "Stop") # {}

\* The operations that open with the security check.
SecuredOps == {"AddModule", "RemoveModule", "EnableModule", "DisableModule"}

\* The access decisions C3 states, for the controllers and principals of the
\* model: the allow-all controller grants everything to any principal; under
\* the role-based one admin holds kernel.module.*, adder holds
\* kernel.module.add, operator holds a role that the provider maps to
\* kernel.module.enable and kernel.module.disable, guest holds neither.
C3_Granted(ac, ctx, op) ==
    /\ ctx # NoPrincipal
    /\ \/ ac = "allowAll"
       \/ ctx.id = "admin"
       \/ ctx.id = "adder" /\ op = "AddModule"
       \/ ctx.id = "operator" /\ op \in {"EnableModule", "DisableModule"}

C4_RunningGuard ==
    [][ \A t \in Threads :
          (th[t].pc = "idle" /\ th'[t] # th[t] /\ th'[t].op \in {"Start", "Stop"}) =>
            IF running = (th'[t].op = "Start")
              THEN /\ th'[t].pc = "idle"
                   /\ th'[t].ret = (IF th'[t].op = "Start"
                                      THEN <<"already running", "-">>
                                      ELSE <<"not running", "-">>)
                   /\ th'[t].calls = <<>>
                   /\ UNCHANGED <<kernelMaps, started, gstarted, regServices,
                                  regGateways>>
              ELSE /\ running' = (th'[t].op = "Start")
                   /\ th'[t].ret[1] \notin {"already running", "not running"} ]_vars

\* C4 witness: while one Start is in its startup sequence, a concurrent
\* Start has returned already-running.
C4_Witness ==
    \E t1, t2 \in Threads :
      /\ th[t1].op = "Start" /\ th[t1].pc = "start_modules"
      /\ th[t2].op = "Start" /\ th[t2].pc = "idle"
      /\ th[t2].ret = <<"already running", "-">>
      /\ running

\* C4 (second sentence, as stated): of two concurrent Start calls exactly one
\* performs the startup sequence, so no two Start calls are ever past the
\* locked section at the same time.
C4_OneStartupSequence ==
    \A t1, t2 \in Threads :
      (th[t1].op = "Start" /\ th[t1].pc # "idle" /\
       th[t2].op = "Start" /\ th[t2].pc # "idle") => t1 = t2

\* Tests on a recorded callback invocation.
IsModuleStartOk(c) == c.kind = "module" /\ c.cb = "Start" /\ c.ok
IsModuleStop(c)    == c.kind = "module" /\ c.cb = "Stop"
IsFailure(c)       == ~c.ok

\* The component names of a sequence of invocations, in order.
CallNames(cs) == [i \in 1..Len(cs) |-> cs[i].name]

\* C5 (as stated): when kernel Start has returned the error of a module's
\* failed Start, the kernel is not running, Stop was invoked on exactly the
\* modules whose Start had succeeded, in reverse start order, and nothing but
\* module Start and module Stop was invoked (no gateway was started).
C5_StartFailureRollback ==
    \A t \in Threads :
      (th[t].op = "Start" /\ th[t].pc = "idle" /\ th[t].ret[1] = "start module") =>
        LET calls == th[t].calls
        IN /\ ~running
           /\ CallNames(SelectSeq(calls, IsModuleStop))
                = Reverse(CallNames(SelectSeq(calls, IsModuleStartOk)))
           /\ \A i \in 1..Len(calls) :
                calls[i].kind = "module" /\ calls[i].cb \in {"Start", "Stop"}

\* C5 witness of the divergence: kernel Start has returned the error of a
\* failed module Start, having invoked Stop on a module it never started and
\* no Stop on a module it did start, which is left started.
C5_Witness ==
    \E t \in Threads :
      LET calls == th[t].calls
      IN /\ th[t].op = "Start" /\ th[t].pc = "idle"
         /\ th[t].ret[1] = "start module"
         /\ \E i \in ModuleCallsAt(calls, "Stop") :
              \A j \in ModuleCallsAt(calls, "Start") : calls[j].name # calls[i].name
         /\ \E j \in ModuleCallsAt(calls, "Start") :
              /\ calls[j].ok
              /\ calls[j].c \in started
              /\ \A i \in ModuleCallsAt(calls, "Stop") : calls[i].name # calls[j].name

\* C6 (as stated): when kernel Start has returned the error of a module's
\* failed RegisterServices, the kernel is not running, every started module
\* was stopped in reverse start order, and neither OnReady nor a gateway
\* Start was invoked.
C6_RegisterFailureUndo ==
    \A t \in Threads :
      (th[t].op = "Start" /\ th[t].pc = "idle" /\ th[t].ret[1] = "RegisterServices") =>
        LET calls == th[t].calls
        IN /\ ~running
           /\ CallNames(SelectSeq(calls, IsModuleStop))
                = Reverse(CallNames(SelectSeq(calls, IsModuleStartOk)))
           /\ \A i \in 1..Len(calls) :
                calls[i].kind = "module" /\ calls[i].cb # "OnReady"

\* C6 witness of the divergence: kernel Start has returned the error of a
\* failed RegisterServices and stopped every module, and the kernel is still
\* marked running.
C6_Witness ==
    \E t \in Threads :
      /\ th[t].op = "Start" /\ th[t].pc = "idle"
      /\ th[t].ret[1] = "RegisterServices"
      /\ started = {}
      /\ running

\* C7 (as stated): when an OnReady is the only callback that failed in a
\* kernel Start that has returned, Start returned success, the kernel is
\* running, OnReady was invoked on every module of the startup order, every
\* gateway of the snapshot was started, and Stop was invoked on the module
\* whose OnReady failed and on no other.
C7_OnReadyFailureNotFatal ==
    \A t \in Threads :
      LET calls  == th[t].calls
          failed == SelectSeq(calls, IsFailure)
      IN (th[t].op = "Start" /\ th[t].pc = "idle" /\ Len(failed) > 0 /\
          \A i \in 1..Len(failed) : failed[i].cb = "OnReady") =>
           /\ th[t].ret = NoErr
           /\ running
           /\ \A k \in 1..Len(th[t].ord) :
                \E i \in ModuleCallsAt(calls, "OnReady") : calls[i].c = th[t].ord[k]
           /\ \A k \in 1..Len(th[t].gws) :
                \E i \in GatewayCallsAt(calls, "Start") :
                  calls[i].name = th[t].gws[k] /\ calls[i].ok
           /\ CallNames(SelectSeq(calls, IsModuleStop)) = CallNames(failed)

\* C7 witness of the divergence: kernel Start has returned the error of the
\* first module's failed OnReady; the second module's OnReady was never
\* invoked and no gateway was started.
C7_Witness ==
    \E t \in Threads :
      LET calls == th[t].calls
      IN /\ th[t].op = "Start" /\ th[t].pc = "idle"
         /\ th[t].ret[1] = "OnReady"
         /\ Len(th[t].ord) >= 2 /\ Len(th[t].gws) >= 1
         /\ Cardinality(ModuleCallsAt(calls, "OnReady")) = 1
         /\ GatewayCallsAt(calls, "Start") = {}
         /\ gstarted = {}
         /\ running

\* The error Stop returns for the first failed invocation of a sequence.
StopError(failed) ==
    IF failed = <<>> THEN NoErr
    ELSE <<IF failed[1].kind = "gateway" THEN "stop gateway" ELSE "stop module",
           failed[1].name>>

\* C8 (as stated): when a kernel Stop that found the kernel running has
\* returned, Stop was invoked on every gateway and then on every enabled
\* module, whatever failed, the kernel is not running, and the error returned
\* is that of the first failed Stop in stop order (success if none failed).
C8_StopAll ==
    \A t \in Threads :
      (th[t].op = "Stop" /\ th[t].pc = "idle" /\ th[t].ret[1] # "not running") =>
        LET calls == th[t].calls
        IN /\ ~running
           /\ \A g \in gateways :
                \E i \in GatewayCallsAt(calls, "Stop") : calls[i].name = g
           /\ \A n \in enabledModules(modules, moduleStates) :
                \E i \in ModuleCallsAt(calls, "Stop") : calls[i].name = n
           /\ \A i \in GatewayCallsAt(calls, "Stop"), j \in ModuleCallsAt(calls, "Stop") :
                i < j
           /\ th[t].ret = StopError(SelectSeq(calls, IsFailure))

\* C8, what the code does: the same, with Stop invoked on every enabled
\* module only when the shutdown order can be computed from the maps.
C8_StopAllWhenOrdered ==
    \A t \in Threads :
      (th[t].op = "Stop" /\ th[t].pc = "idle" /\ th[t].ret[1] # "not running") =>
        LET calls == th[t].calls
        IN /\ ~running
           /\ \A g \in gateways :
                \E i \in GatewayCallsAt(calls, "Stop") : calls[i].name = g
           /\ (\A r \in getModuleShutdownOrder(modules, moduleStates) : r.err = NoErr) =>
                \A n \in enabledModules(modules, moduleStates) :
                  \E i \in ModuleCallsAt(calls, "Stop") : calls[i].name = n
           /\ \A i \in GatewayCallsAt(calls, "Stop"), j \in ModuleCallsAt(calls, "Stop") :
                i < j
           /\ th[t].ret = StopError(SelectSeq(calls, IsFailure))

\* C8 witness of the divergence: a kernel Stop has returned success without
\* invoking Stop on any module, and an enabled module is left started in a
\* kernel that is not running.
C8_Witness ==
    \E t \in Threads :
      /\ th[t].op = "Stop" /\ th[t].pc = "idle" /\ th[t].ret = NoErr
      /\ ModuleCallsAt(th[t].calls, "Stop") = {}
      /\ ~running
      /\ \E m \in started : IsEnabled(moduleStates, m.name) /\ modules[m.name] = m

\* The enabled modules reachable from the set S through at most k more
\* dependency edges.
RECURSIVE ReachableDeps(_, _, _, _)
ReachableDeps(mods, en, S, k) ==
    IF k = 0 THEN S
    ELSE ReachableDeps(mods, en,
                       S \cup { d \in en : \E n \in S : d \in DOMAIN mods[n].deps },
                       k - 1)

\* The dependency graph over the enabled modules has a cycle: some module is
\* reachable from its own dependencies (a self-dependency included).
HasCycle(mods, en) ==
    \E n \in en :
      n \in ReachableDeps(mods, en, { d \in en : d \in DOMAIN mods[n].deps },
                          Cardinality(en))

\* Every dependency declared by an enabled module is present, enabled and
\* version-compatible.
DepsSatisfied(mods, en) ==
    \A n \in en : \A d \in DOMAIN mods[n].deps :
      /\ d \in en
      /\ ConstraintValid(mods[n].deps[d])
      /\ SemverValid(mods[d].version)
      /\ ConstraintCheck(mods[n].deps[d], mods[d].version)

\* The version of every enabled module parses.
VersionsValid(mods, en) == \A n \in en : SemverValid(mods[n].version)

\* What C9 says of a kernel Start that is past the order computation: the
\* circular-dependency error exactly when there is a cycle, then no callback
\* and the kernel not running once Start has returned, and otherwise an
\* order that lists each enabled module once.
StartDetectsCycles(t) ==
    LET en == enabledModules(modules, moduleStates)
    IN /\ (th[t].ret[1] = "circular dependency") <=> HasCycle(modules, en)
       /\ HasCycle(modules, en) =>
            /\ th[t].calls = <<>>
            /\ th[t].pc = "idle" => ~running
       /\ ~HasCycle(modules, en) =>
            /\ Len(th[t].ord) = Cardinality(en)
            /\ \A n \in en : \E i \in 1..Len(th[t].ord) : th[t].ord[i] = modules[n]

\* The kernel Start calls C9 speaks of: those that found the kernel not
\* running and have computed the order.
PastStartOrder(t) ==
    /\ th[t].op = "Start"
    /\ th[t].pc # "start_order"
    /\ th[t].ret[1] # "already running"

\* C9 (as stated): with every declared dependency present, enabled and
\* version-compatible, kernel Start fails with the circular-dependency error
\* exactly when the dependency graph over the enabled modules has a cycle,
\* and otherwise computes an order with every enabled module exactly once.
C9_CycleIffError ==
    \A t \in Threads :
      (PastStartOrder(t) /\
       DepsSatisfied(modules, enabledModules(modules, moduleStates))) =>
        StartDetectsCycles(t)

\* C9 (amended): the same, when in addition the version of every enabled
\* module parses as a semantic version.
C9_CycleIffErrorValidVersions ==
    \A t \in Threads :
      (PastStartOrder(t) /\
       DepsSatisfied(modules, enabledModules(modules, moduleStates)) /\
       VersionsValid(modules, enabledModules(modules, moduleStates))) =>
        StartDetectsCycles(t)

\* C9 witness: a kernel Start over two enabled modules that depend on each
\* other, with compatible versions, has returned the circular-dependency
\* error without a callback, and the kernel is not running.
C9_Witness ==
    \E t \in Threads :
      LET en == enabledModules(modules, moduleStates)
      IN /\ th[t].op = "Start" /\ th[t].pc = "idle"
         /\ th[t].ret[1] = "circular dependency"
         /\ DepsSatisfied(modules, en) /\ VersionsValid(modules, en)
         /\ \E a, b \in en :
              a # b /\ b \in DOMAIN modules[a].deps /\ a \in DOMAIN modules[b].deps
         /\ th[t].calls = <<>>
         /\ ~running

\* The errors of the dependency analysis.
DependencyErrors ==
    { "missing dependency", "invalid version", "invalid constraint",
      "invalid dependency version", "version conflict", "circular dependency" }

\* The names whose enabled flag is set.
EnabledNames == { n \in DOMAIN modules : moduleStates[n] }

\* Some enabled module declares a dependency on a module that is absent or
\* disabled.
DependencyMissing ==
    \E n \in EnabledNames : \E d \in DOMAIN modules[n].deps : d \notin EnabledNames

\* Everything is valid for the enabled modules: versions, dependencies,
\* constraints, no cycle.  Nothing is asked of a disabled module.
EnabledGraphValid ==
    /\ DepsSatisfied(modules, EnabledNames)
    /\ VersionsValid(modules, EnabledNames)
    /\ ~HasCycle(modules, EnabledNames)

\* C10: a kernel Start that computes the order while some enabled module
\* declares a dependency on an absent or disabled module gets a dependency
\* error, and then returns it without having invoked a callback, leaving the
\* kernel not running; a successful EnableModule sets the enabled flag of the
\* named module and nothing else in the maps; and a Start that computes the
\* order when all is valid for the enabled modules (whatever the versions and
\* dependencies of the disabled ones) gets an order listing each enabled
\* module.
C10_MissingDependency ==
    [][ \A t \in Threads :
          /\ (th[t].pc = "start_order" /\ th'[t] # th[t]) =>
               /\ DependencyMissing =>
                    /\ th'[t].pc = "start_order_failed"
                    /\ th'[t].ret[1] \in DependencyErrors
               /\ EnabledGraphValid =>
                    /\ th'[t].pc # "start_order_failed"
                    /\ th'[t].ret = NoErr
                    /\ Len(th'[t].ord) = Cardinality(EnabledNames)
                    /\ \A n \in EnabledNames :
                         \E i \in 1..Len(th'[t].ord) : th'[t].ord[i] = modules[n]
          /\ (th[t].pc = "start_order_failed" /\ th'[t] # th[t]) =>
               /\ th'[t].pc = "idle"
               /\ th'[t].ret = th[t].ret
               /\ th'[t].calls = <<>>
               /\ ~running'
               /\ started' = started
          /\ (th[t].pc = "idle" /\ th'[t] # th[t] /\
              th'[t].op = "EnableModule" /\ th'[t].ret = NoErr) =>
               /\ th'[t].m.name \in DOMAIN modules
               /\ moduleStates' = MapPut(moduleStates, th'[t].m.name, TRUE)
               /\ modules' = modules ]_vars

\* C10 witness: in a kernel that began with a dependency on a disabled or
\* absent module, Start has succeeded after EnableModule: a module was
\* started after the dependency it declares, while a disabled module with an
\* unparsable version and dependencies on every name is in the kernel.
C10_Witness ==
    \E t \in Threads :
      LET calls == th[t].calls
      IN /\ th[t].op = "Start" /\ th[t].pc = "idle" /\ th[t].ret = NoErr
         /\ running
         /\ \E i, j \in ModuleCallsAt(calls, "Start") :
              /\ i < j
              /\ calls[i].name \in DOMAIN calls[j].c.deps
              /\ calls[i].ok /\ calls[j].ok
         /\ \E n \in DOMAIN modules :
              /\ ~moduleStates[n]
              /\ ~SemverValid(modules[n].version)
              /\ DOMAIN modules[n].deps = Names

-----------------------------------------------------------------------------
(* C11: services and the modules that own them *)

\* The modules that own a service of the registry (serviceEntry.moduleName).
ServiceOwners == { regServices[s] : s \in DOMAIN regServices }
\* The names of the modules that are started.
StartedNames == { m.name : m \in started }
\* No operation is in progress.
Quiescent == \A t \in Threads : th[t].pc = "idle"

\* C11: between two operations, every service of the registry (every service
\* that GetService can find) is owned by a module that is started: when a
\* module has been stopped none of its services remains registered.
C11_ServicesOnlyWhileStarted ==
    Quiescent => ServiceOwners \subseteq StartedNames

\* A Stop that returned nil, with no callback failure anywhere, has stopped
\* every module and the registry still holds their services.
C11_Witness ==
    \E t \in Threads :
      /\ th[t].op = "Stop"
      /\ th[t].pc = "idle"
      /\ th[t].ret = NoErr
      /\ faults = MaxFaults
      /\ started = {}
      /\ \E i \in 1..Len(th[t].calls) :
            /\ IsModuleStop(th[t].calls[i])
            /\ th[t].calls[i].name \in ServiceOwners

-----------------------------------------------------------------------------
(* C12: the rollback of ReloadModule *)

\* Thread t takes a step of ReloadModule.
ReloadStep(t) == th'[t] # th[t] /\ th'[t].op = "ReloadModule"

\* Thread t returns from a ReloadModule, called on a running kernel, that
\* failed in Configure or in Start of the new module.
ReloadFailedReturn(t) ==
    /\ ReloadStep(t)
    /\ th[t].pc # "idle"
    /\ th'[t].pc = "idle"
    /\ th'[t].ret[1] \in {"configure new module", "start new module"}
    /\ running

\* What the claim states on such a return, save for the started flag: the old
\* instance is stored again, the error names the step that failed, and it
\* reports the rollback error exactly when the restart of the old instance
\* failed.
ReloadRestored(t) ==
    LET rec == th'[t]
        c   == rec.calls
        n   == Len(c)
    IN /\ rec.m.name \in DOMAIN modules'
       /\ modules'[rec.m.name] = rec.old
       /\ n >= 2
       /\ c[n - 1] = Call(IF rec.ret[1] = "configure new module"
                            THEN "Configure" ELSE "Start", rec.m, FALSE)
       /\ c[n] = Call("Start", rec.old, rec.ret[2] # "rollback failed")
       /\ rec.ret[2] \in {rec.m.name, "rollback failed"}

\* C12 as stated: when ReloadModule fails in Configure or Start of the new
\* module on a running kernel, on return the old instance is stored again and
\* is started, the registry is as it was before the call, and the error names
\* the failing step and the failure of the rollback.
C12_ReloadRollbackStarted ==
    [][ \A t \in Threads :
          /\ ReloadStep(t) => regServices' = regServices
          /\ ReloadFailedReturn(t) =>
                /\ ReloadRestored(t)
                /\ th'[t].old \in started' ]_vars

\* C12, amended: the old instance is started on return unless its restart
\* failed too, which is when the error reports the rollback failure.
C12_ReloadRollback ==
    [][ \A t \in Threads :
          /\ ReloadStep(t) => regServices' = regServices
          /\ ReloadFailedReturn(t) =>
                /\ ReloadRestored(t)
                /\ (th'[t].old \in started') <=> (th'[t].ret[2] # "rollback failed") ]_vars

\* ReloadModule returned a Configure failure on a running kernel whose module
\* was started with its service registered: the old instance is stored,
\* started and its service is still registered.
C12_Witness ==
    \E t \in Threads :
      /\ th[t].op = "ReloadModule"
      /\ th[t].pc = "idle"
      /\ th[t].ret = <<"configure new module", th[t].m.name>>
      /\ th[t].m # th[t].old
      /\ running
      /\ modules[th[t].m.name] = th[t].old
      /\ th[t].old \in started
      /\ ServiceOf(th[t].m.name) \in DOMAIN regServices

-----------------------------------------------------------------------------
(* C13: AddModule that fails after it registered the module *)

\* The errors AddModule returns for a failed OnLoad, Configure and Start.
AddModuleCallbackErrors == {"OnLoad", "configure module", "start module"}

\* Thread t has returned from an AddModule that failed in a callback and has
\* not begun another operation.
AddModuleFailed(t) ==
    /\ th[t].op = "AddModule"
    /\ th[t].pc = "idle"
    /\ th[t].ret[1] \in AddModuleCallbackErrors

\* C13: when AddModule has returned an error of OnLoad, Configure or Start,
\* the name is in neither k.modules (GetModule reports not-found, ListModules
\* omits it, a later AddModule is not a duplicate) nor k.moduleStates.
C13_AddModuleFailureRestores ==
    \A t \in Threads :
      AddModuleFailed(t) =>
        /\ th[t].m.name \notin DOMAIN modules
        /\ th[t].m.name \notin DOMAIN moduleStates

\* AddModule returned the error of a failed Configure and the module is
\* still registered and enabled.
C13_Witness ==
    \E t \in Threads :
      /\ AddModuleFailed(t)
      /\ th[t].ret[1] = "configure module"
      /\ th[t].calls[Len(th[t].calls)] = Call("Configure", th[t].m, FALSE)
      /\ th[t].m.name \in DOMAIN modules
      /\ modules[th[t].m.name] = th[t].m
      /\ moduleStates[th[t].m.name]

-----------------------------------------------------------------------------
(* C14: RemoveModule whose Stop fails *)

\* Thread t has returned from a RemoveModule whose Stop failed (the kernel
\* was running) and has not begun another operation.
RemoveModuleStopFailed(t) ==
    /\ th[t].op = "RemoveModule"
    /\ th[t].pc = "idle"
    /\ th[t].ret[1] = "stop module"

\* C14: when the module's Stop fails during RemoveModule on a running kernel
\* the module is back in k.modules, its enabled flag is what it was before
\* the call and the registry holds the services it held before the call.
C14_RemoveFailureReinstates ==
    \A t \in Threads :
      RemoveModuleStopFailed(t) =>
        /\ th[t].m.name \in DOMAIN modules
        /\ modules[th[t].m.name] = th[t].m
        /\ IsEnabled(moduleStates, th[t].m.name) = th[t].pre.enabled
        /\ regServices = th[t].pre.services

\* RemoveModule of a module that owned a registered service returned the
\* error of a failed Stop: the module is back in k.modules and its service
\* is gone from the registry.
C14_Witness ==
    \E t \in Threads :
      /\ RemoveModuleStopFailed(t)
      /\ th[t].calls = <<Call("Stop", th[t].m, FALSE)>>
      /\ modules[th[t].m.name] = th[t].m
      /\ ServiceOf(th[t].m.name) \in DOMAIN th[t].pre.services
      /\ ServiceOf(th[t].m.name) \notin DOMAIN regServices

-----------------------------------------------------------------------------
(* C15: AddModule, then RemoveModule; GetModule and ListModules *)

\* The position of a name in the order of sort.Strings.
NameRank(n) == CASE n = "A" -> 1 [] n = "B" -> 2 [] n = "C" -> 3 [] OTHER -> 4

\* The sorted sequence with x inserted into the sorted sequence s.
RECURSIVE Insert(_, _)
Insert(x, s) ==
    IF s = <<>> THEN <<x>>
    ELSE IF NameRank(x) <= NameRank(Head(s)) THEN <<x>> \o s
    ELSE <<Head(s)>> \o Insert(x, Tail(s))

\* sort.Strings(names)
RECURSIVE SortStrings(_)
SortStrings(names) ==
    IF names = <<>> THEN <<>>
    ELSE Insert(Head(names), SortStrings(Tail(names)))

\* kernel.ListModules: every result it can return, over the orders in which
\* the map is iterated.
ListModules(mods) == { SortStrings(p) : p \in SeqPerms(DOMAIN mods) }

\* kernel.GetModule(name): the module and whether it was found.
GetModule(mods, name) ==
    IF name \in DOMAIN mods THEN <<mods[name], TRUE>> ELSE <<NoModule, FALSE>>

IsSorted(s) == \A i \in 1..(Len(s) - 1) : NameRank(s[i]) < NameRank(s[i + 1])
Lists(s, n) == \E i \in 1..Len(s) : s[i] = n

\* Thread t has returned nil from the operation op and has not begun another.
Succeeded(t, op) ==
    /\ th[t].op = op
    /\ th[t].pc = "idle"
    /\ th[t].ret = NoErr

\* C15: after a successful AddModule ListModules is sorted and lists the
\* name; after a successful RemoveModule ListModules is sorted and omits the
\* name, GetModule reports not-found and no service of the registry is owned
\* by the name.
C15_AddThenRemove ==
    \A t \in Threads :
      /\ Succeeded(t, "AddModule") =>
            \A l \in ListModules(modules) : IsSorted(l) /\ Lists(l, th[t].m.name)
      /\ Succeeded(t, "RemoveModule") =>
            /\ \A l \in ListModules(modules) : IsSorted(l) /\ ~Lists(l, th[t].m.name)
            /\ ~GetModule(modules, th[t].m.name)[2]
            /\ th[t].m.name \notin ServiceOwners

\* A module that was added and had registered its service on a running
\* kernel has been removed with success, next to another module that stays.
C15_Witness ==
    \E t \in Threads :
      /\ Succeeded(t, "RemoveModule")
      /\ running
      /\ th[t].calls = <<Call("Stop", th[t].m, TRUE)>>
      /\ ServiceOf(th[t].m.name) \in DOMAIN th[t].pre.services
      /\ modules # <<>>

-----------------------------------------------------------------------------
(* C16: DisableModule, then EnableModule, on a running kernel *)

\* C16: on a running kernel a successful DisableModule leaves the module
\* disabled and stopped, a successful EnableModule leaves it enabled and
\* started, and both leave the registry as they found it: after the two the
\* module has the service registrations it had before, none added and none
\* removed.
C16_DisableThenEnable ==
    \A t \in Threads :
      /\ Succeeded(t, "DisableModule") /\ running =>
            /\ ~IsEnabled(moduleStates, th[t].m.name)
            /\ modules[th[t].m.name] \notin started
            /\ regServices = th[t].pre.services
      /\ Succeeded(t, "EnableModule") /\ running =>
            /\ IsEnabled(moduleStates, th[t].m.name)
            /\ modules[th[t].m.name] \in started
            /\ regServices = th[t].pre.services

\* A module that had registered its service and was disabled while the
\* kernel was running has been enabled again: it is started and its service
\* is registered.
C16_Witness ==
    \E t \in Threads :
      /\ Succeeded(t, "EnableModule")
      /\ running
      /\ ~th[t].pre.enabled
      /\ th[t].calls = <<Call("Start", th[t].m, TRUE)>>
      /\ th[t].m \in started
      /\ ServiceOf(th[t].m.name) \in DOMAIN regServices
      /\ regServices[ServiceOf(th[t].m.name)] = th[t].m.name

-----------------------------------------------------------------------------
(* C17: panics of callbacks *)

\* The sequential client of a kernel whose callbacks may also panic.
NextPanic == Next \/ Panics

SpecPanic == InitSeq /\ [][NextPanic]_vars

\* C17: no panic of a module or gateway callback leaves the kernel: every
\* operation returns (an error or nil) to its caller.
C17_NoPanicEscapes ==
    \A t \in Threads : th[t].pc # "panicked"

\* EnableModule on a running kernel called Start on the module, Start
\* panicked, and the panic left EnableModule.
C17_Witness ==
    \E t \in Threads :
      /\ th[t].op = "EnableModule"
      /\ th[t].pc = "panicked"
      /\ running
      /\ th[t].calls = <<Call("Start", th[t].m, FALSE)>>
      /\ th[t].ret = <<"panic", th[t].m.name>>

-----------------------------------------------------------------------------
(* C18: the dependencies of the enabled modules of a running kernel *)

\* C18: between two operations on a running kernel, every dependency that
\* an enabled module declares is a module of the kernel, is enabled and has
\* a version that satisfies the declared constraint.
C18_DependenciesWhileRunning ==
    (Quiescent /\ running) => DepsSatisfied(modules, EnabledNames)

\* AddModule on a running kernel has returned nil and has started a module
\* whose dependency is not a module of the kernel.
C18_Witness ==
    \E t \in Threads :
      /\ Succeeded(t, "AddModule")
      /\ running
      /\ th[t].m.name \in EnabledNames
      /\ modules[th[t].m.name] = th[t].m
      /\ th[t].m \in started
      /\ \E d \in DOMAIN th[t].m.deps : d \notin DOMAIN modules

-----------------------------------------------------------------------------
(* C19: injection of the event bus and the registry *)

\* The lifecycle callbacks of a module.
Lifecycle == {"OnLoad", "Configure", "Start", "RegisterServices", "OnReady", "Stop"}

\* The callbacks that thread t invokes in the step, in order.
NewCalls(t) ==
    IF th'[t] = th[t] THEN <<>>
    ELSE IF th[t].pc = "idle" THEN th'[t].calls
    ELSE SubSeq(th'[t].calls, Len(th[t].calls) + 1, Len(th'[t].calls))

\* Call i of the sequence c is preceded in c by the callback cb on the same
\* module instance.
PrecededBy(c, i, cb) ==
    \E j \in 1..(i - 1) : c[j].kind = "module" /\ c[j].cb = cb /\ c[j].c = c[i].c

\* C19: whenever a lifecycle callback of a module instance is invoked, the
\* instance has been handed the event bus and the registry before (in an
\* earlier step, or earlier in the same AddModule, which then calls OnLoad
\* and Configure before any Start); an AddModule hands them over once.
C19_InjectedBeforeLifecycle ==
    [][ \A t \in Threads :
          LET c == NewCalls(t)
          IN \A i \in 1..Len(c) :
               /\ (c[i].kind = "module" /\ c[i].cb \in Lifecycle) =>
                     \/ c[i].c \in wired
                     \/ PrecededBy(c, i, "SetEventBus") /\ PrecededBy(c, i, "SetRegistry")
               /\ (c[i].kind = "module" /\ c[i].cb \in {"SetEventBus", "SetRegistry"}) =>
                     ~PrecededBy(c, i, c[i].cb) ]_vars

\* AddModule has stored a module and has not yet handed it the event bus,
\* while the Start of another client has already called Start on it.
C19_Witness ==
    \E t, u \in Threads :
      /\ th[t].op = "AddModule"
      /\ th[t].pc = "add_load"
      /\ th[t].m \notin wired
      /\ th[u].op = "Start"
      /\ \E i \in 1..Len(th[u].calls) :
            th[u].calls[i] = Call("Start", th[t].m, TRUE)

-----------------------------------------------------------------------------
(* C20: the passes of one Start *)

\* Before call i of the sequence c, the callback cb has succeeded on every
\* module of the sequence ord.
PassDone(c, i, cb, ord) ==
    \A k \in 1..Len(ord) :
      \E j \in 1..(i - 1) : c[j] = Call(cb, ord[k], TRUE)

\* C20: in the callbacks of one Start, a RegisterServices comes after the
\* successful Start of every enabled module, an OnReady after the successful
\* RegisterServices of every enabled module, and the Start of a gateway
\* after the successful OnReady of every enabled module; the modules that
\* Start works on are the enabled modules.
C20_StartPasses ==
    \A t \in Threads :
      th[t].op = "Start" =>
        LET c   == th[t].calls
            ord == th[t].ord
        IN /\ c # <<>> =>
                { ord[k].name : k \in 1..Len(ord) } = EnabledNames
           /\ \A i \in 1..Len(c) :
                /\ (c[i].kind = "module" /\ c[i].cb = "RegisterServices") =>
                      PassDone(c, i, "Start", ord)
                /\ (c[i].kind = "module" /\ c[i].cb = "OnReady") =>
                      PassDone(c, i, "RegisterServices", ord)
                /\ (c[i].kind = "gateway" /\ c[i].cb = "Start") =>
                      PassDone(c, i, "OnReady", ord)

\* A Start of a kernel with two enabled modules or more has returned nil
\* after it started both gateways.
C20_Witness ==
    \E t \in Threads :
      /\ Succeeded(t, "Start")
      /\ Len(th[t].ord) >= 2
      /\ Cardinality(GatewayCallsAt(th[t].calls, "Start")) = 2
      /\ Cardinality(ModuleCallsAt(th[t].calls, "OnReady")) = Len(th[t].ord)

-----------------------------------------------------------------------------
(* C21: a Stop callback that does not return *)

\* Stop invokes g.Stop and m.Stop on its own goroutine, inside safelyExecute:
\* the context handed over carries the timeout, and a callback that does not
\* watch the context never returns.  The call stays where it is.
StopCallbackBlocks(t) ==
    /\ th[t].pc \in {"stop_gateways", "stop_modules"}
    /\ faults > 0
    /\ faults' = faults - 1
    /\ Set(t, [th[t] EXCEPT !.pc = "blocked"])
    /\ UNCHANGED <<kernelMaps, accessController, wired, busVars, libVars, regServices, regGateways,
                   started, gstarted, opsLeft>>

NextHang == NextGraph \/ \E t \in Threads : StopCallbackBlocks(t)

\* The kernel's own steps are taken whenever they can be; whether a callback
\* returns is up to the component.
SpecHang == InitGraph /\ [][NextHang]_vars /\ WF_vars(NextGraph)

\* C21: a Stop that has begun to stop the components returns, even if a
\* Stop callback of a module or gateway does not return within its
\* shutdownTimeout.
C21_StopReturns ==
    (th[1].op = "Stop" /\ th[1].pc # "idle")
        ~> (th[1].op = "Stop" /\ th[1].pc = "idle")

\* Stop is inside a Stop callback that does not return, with components
\* left to stop.
C21_Witness ==
    /\ th[1].op = "Stop"
    /\ th[1].pc = "blocked"
    /\ started # {}

-----------------------------------------------------------------------------
(* C22: the bus after Close *)

-----------------------------------------------------------------------------
(* C23: a sink is closed once *)

\* The client c has just made the call op.
Called(c, op) == cl'[c] # cl[c] /\ cl'[c].op = op

\* C23: close(ch) is executed at most once on every sink, whatever the
\* interleaving of cancel calls and Close calls; a closed sink stays closed,
\* and a cancel for a sink that is closed already, like a Close of a bus that
\* is closed already, leaves the topics, the flag and the sinks as they were.
C23_ClosedOnce ==
    /\ [](\A ch \in SinkIds : sinks[ch].closes <= 1)
    /\ [][ /\ \A ch \in SinkIds :
                ~sinks[ch].open =>
                   ~sinks'[ch].open /\ sinks'[ch].closes = sinks[ch].closes
           /\ \A c \in Clients :
                /\ (Called(c, "cancel") /\ ~sinks[cl'[c].s].open) =>
                      UNCHANGED <<topics, closed, sinks>>
                /\ (Called(c, "Close") /\ closed) =>
                      UNCHANGED <<topics, closed, sinks>> ]_vars

\* One sink was made and three cancel and Close calls followed, the last
\* ones a cancel by one client and a Close by another: a call was repeated.
C23_Witness ==
    \E c, d \in Clients :
      /\ c # d
      /\ cl[c].op = "cancel"
      /\ cl[d].op = "Close"
      /\ busLeft = 0
      /\ pubLeft = MaxPublishes
      /\ Len(sinks) = 1
      /\ sinks[cl[c].s].closes = 1

-----------------------------------------------------------------------------
(* C24: a full sink *)

\* The number of times e occurs in the sequence q.
Count(q, e) == Cardinality({ i \in 1..Len(q) : q[i] = e })

\* Everything the sink has been sent: what its subscriber received and what
\* is still in the buffer.
Delivered(ch) == sinks[ch].got \o sinks[ch].buf

\* What a Publish of client c has done so far agrees with its snapshot: the
\* select ran for the sinks in the order of the snapshot; a sink that held
\* SinkCapacity events was skipped and does not hold the event, a sink that
\* had room holds it exactly once, and no other sink holds it.
PublishFaithful(c) ==
    LET r == cl[c]
        e == Event(c, r.n)
    IN /\ Len(r.sent) <= Len(r.chs)
       /\ \A i \in 1..Len(r.sent) :
            /\ r.sent[i].ch = r.chs[i]
            /\ r.sent[i].case = "default" =>
                 r.sent[i].len = SinkCapacity /\ Count(Delivered(r.chs[i]), e) = 0
            /\ r.sent[i].case = "send" =>
                 r.sent[i].len < SinkCapacity /\ Count(Delivered(r.chs[i]), e) = 1
            /\ r.sent[i].case \in {"done", "panic"} => i = Len(r.sent)
       /\ \A ch \in SinkIds :
            (\A i \in 1..Len(r.sent) : r.sent[i].ch # ch) =>
               Count(Delivered(ch), e) = 0

\* Publish has a step to take wherever it is in its loop, and no sink holds
\* more than SinkCapacity events.
NeverWaits ==
    /\ \A ch \in SinkIds : Len(sinks[ch].buf) <= SinkCapacity
    /\ \A c \in Clients : cl[c].pc = "send" => ENABLED PublishSend(c)

-----------------------------------------------------------------------------
(* C25: the order of the events of one publisher *)

\* C25: in what a sink has been sent (received or still buffered), the
\* events of one publisher appear in the order of its Publish calls, each at
\* most once.
C25_PublisherOrder ==
    \A ch \in SinkIds :
      LET q == Delivered(ch)
      IN \A i, j \in 1..Len(q) :
           (i < j /\ q[i].p = q[j].p) => q[i].n < q[j].n

\* A sink holds two events of one publisher with an event of another
\* publisher between them, and its subscriber has received the first.
C25_Witness ==
    \E ch \in SinkIds :
      LET q == Delivered(ch)
      IN /\ Len(q) = 3
         /\ q[1].p = q[3].p
         /\ q[2].p # q[1].p
         /\ Len(sinks[ch].got) = 1

-----------------------------------------------------------------------------
(* C26: cancel *)

\* The sink is subscribed to its topic in the table tps.
Subscribed(tps, ch) == ch \in Subs(tps, sinks[ch].topic)

\* C26: a sink whose cancel-handle has returned is closed and subscribed
\* nowhere; a Publish delivers to no sink that was closed when it began; the
\* table holds a topic exactly when the topic has a subscriber, and the
\* subscribers are the open sinks; a cancel changes no other sink and no
\* other subscription.
C26_CancelDetaches ==
    /\ [] /\ \A c \in Clients :
               /\ cl[c].op = "cancel" =>
                    ~sinks[cl[c].s].open /\ ~Subscribed(topics, cl[c].s)
               /\ cl[c].op = "Publish" =>
                    \A i \in 1..Len(cl[c].chs) : cl[c].chs[i] \notin cl[c].pre.dead
          /\ \A tp \in DOMAIN topics :
               /\ topics[tp] # {}
               /\ \A ch \in topics[tp] : ch \in SinkIds /\ sinks[ch].topic = tp
          /\ \A ch \in SinkIds : Subscribed(topics, ch) <=> sinks[ch].open
    /\ [][ \A c \in Clients :
             Called(c, "cancel") =>
               \A ch \in SinkIds \ {cl'[c].s} :
                  /\ sinks'[ch] = sinks[ch]
                  /\ Subscribed(topics', ch) <=> Subscribed(topics, ch) ]_vars

\* One of two subscribers of a topic has cancelled, the topic is still in
\* the table, and a Publish that began afterwards has delivered to the other
\* subscriber only.
C26_Witness ==
    \E c, d \in Clients :
      /\ cl[c].op = "cancel"
      /\ cl[d].op = "Publish" /\ cl[d].pc = "idle"
      /\ cl[c].s \in cl[d].pre.dead
      /\ cl[d].topic = cl[c].topic
      /\ Len(cl[d].sent) = 1
      /\ cl[d].sent[1].case = "send"
      /\ sinks[cl[c].s].buf = <<>>
      /\ cl[d].topic \in DOMAIN topics

-----------------------------------------------------------------------------
(* C27: lookups in the registry *)

\* The controller grants the principal of the context the permission.
Grants(ctx, perm) ==
    ctx # NoPrincipal /\ HasPermission(accessController, ctx, perm)

\* C27: GetService returns the stored value of the entry when the name is
\* registered, the context carries a principal and the controller grants it
\* service.<owningModule>.<name>.access; in every other case it returns an
\* error and no value.  GetGateway does the same with gateway.<name>.access.
C27_Lookup ==
    LET name == libCall.arg
    IN /\ libCall.op = "GetService" =>
            IF /\ name \in DOMAIN reg.services
               /\ Grants(libCall.ctx,
                         S_service \o <<".">> \o reg.services[name].moduleName
                           \o <<".">> \o name \o <<".", "a","c","c","e","s","s">>)
              THEN libCall.err = "nil" /\ libCall.val = reg.services[name].service
              ELSE libCall.err # "nil" /\ libCall.val = NoInstance
       /\ libCall.op = "GetGateway" =>
            IF /\ name \in DOMAIN reg.gateways
               /\ Grants(libCall.ctx,
                         S_gateway \o <<".">> \o name
                           \o <<".", "a","c","c","e","s","s">>)
              THEN libCall.err = "nil" /\ libCall.val = reg.gateways[name].service
              ELSE libCall.err # "nil" /\ libCall.val = NoInstance

\* Under the provider-backed controller, with every service and gateway
\* name registered, a lookup has returned the instance i2 to the principal
\* that holds a wildcard over the services of module A.
C27_Witness ==
    /\ accessController = "rbac"
    /\ libCall.op = "GetService"
    /\ libCall.ctx.id = "svc-A"
    /\ libCall.val = "i2"
    /\ DOMAIN reg.services = ServiceNames
    /\ DOMAIN reg.gateways = GatewayNames

-----------------------------------------------------------------------------
(* C28: HasPermission with a provider *)

\* s begins with pre
BeginsWith(s, pre) == Len(s) >= Len(pre) /\ SubSeq(s, 1, Len(pre)) = pre

\* w has the form X.* and perm begins with X followed by a dot.
WildcardCovers(w, perm) ==
    /\ Len(w) >= 2
    /\ SubSeq(w, Len(w) - 1, Len(w)) = <<".", "*">>
    /\ BeginsWith(perm, SubSeq(w, 1, Len(w) - 1))

\* The three cases in which the principal is to have the permission.
Entitled(p, perm) ==
    \E i \in 1..Len(p.roles) :
       \/ p.roles[i] = perm
       \/ WildcardCovers(p.roles[i], perm)
       \/ /\ p.roles[i] \in DOMAIN rbacProvider
          /\ \E rolePerm \in rbacProvider[p.roles[i]] :
                rolePerm = perm \/ WildcardCovers(rolePerm, perm)

\* C28: with a provider, HasPermission(p, perm) is true exactly when a role
\* name of p equals perm, or a role name X.* of p has perm begin with X and a
\* dot, or the provider resolves a role name of p to a role that holds perm
\* or a wildcard Y.* with perm beginning with Y and a dot.
C28_HasPermissionIff ==
    (accessController = "rbac" /\ libCall.op = "HasPermission") =>
       (libCall.ret <=> Entitled(libCall.ctx, libCall.arg))

\* With a provider, HasPermission has answered true for the permission
\* kernel.modules and a principal whose only role is kernel.module.*.
C28_Witness ==
    /\ accessController = "rbac"
    /\ libCall.op = "HasPermission"
    /\ libCall.ctx.roles = <<RoleWildcard>>
    /\ libCall.arg = S_kernel_module \o <<"s">>
    /\ libCall.ret

-----------------------------------------------------------------------------
(* C29: the controller without provider *)

\* C29: the controller built without a provider answers true to
\* HasPermission and to every helper, for every principal and argument, and
\* it is the controller of a kernel that was given none.
C29_NullModeAllowsAll ==
    /\ NewKernelController(NoController) = NewDefaultAccessController(NoProvider)
    /\ (/\ accessController = NewDefaultAccessController(NoProvider)
        /\ libCall.op \in Helpers) => libCall.ret

\* The controller built without provider has answered a helper that takes a
\* component, for the principal without roles and a component with a
\* wildcard.
C29_Witness ==
    /\ accessController = NewKernelController(NoController)
    /\ libCall.op = "CanReloadModule"
    /\ libCall.ctx.roles = <<>>
    /\ libCall.arg = <<"a", ".", "*">>
    /\ libCall.ret

-----------------------------------------------------------------------------
(* C30: sanitized components *)

\* The component with every character outside [A-Za-z0-9.-] replaced by "_".
ReplaceEach(c) ==
    [i \in 1..Len(c) |-> IF c[i] \in SafeChars THEN c[i] ELSE "_"]

\* C30: the decision of CanPublishEvent, CanSubscribeEvent, CanAccessConfig
\* and CanReloadModule for a component is the decision for the component
\* with every character outside [A-Za-z0-9.-] replaced by "_", and
\* sanitizing a sanitized component changes nothing.
C30_SanitizedDecision ==
    libCall.op \in ComponentHelpers =>
       /\ libCall.ret = Decide(accessController, libCall.op, libCall.ctx,
                               ReplaceEach(libCall.arg))
       /\ sanitizePermissionComponent(sanitizePermissionComponent(libCall.arg))
            = sanitizePermissionComponent(libCall.arg)

\* With a provider, CanPublishEvent has granted the component a@a to the
\* principal whose role is core.events.publish.a_a.
C30_Witness ==
    /\ accessController = "rbac"
    /\ libCall.op = "CanPublishEvent"
    /\ libCall.ctx.id = "publisher"
    /\ libCall.arg = <<"a", "@", "a">>
    /\ libCall.ret

-----------------------------------------------------------------------------
(* C31: component callbacks that call back into the kernel *)

\* A thread that holds k.mu and waits for k.mu: the callback it invoked from
\* inside a locked section called k.Running(), whose RLock waits for the
\* write lock of its own goroutine.
Deadlocked == \E t \in DOMAIN th : th[t].pc = "deadlock"
HoldsLock(rec, call) == [Log(rec, call) EXCEPT !.pc = "deadlock"]

\* EnableModule on a running kernel: the flag is set and m.Start is invoked
\* with k.mu held (the Unlock is deferred); m.Start calls k.Running().
EnableModuleReenters(t) ==
    /\ CanBegin(t)
    /\ running
    /\ opsLeft' = opsLeft - 1
    /\ \E name \in InputNames \cap DOMAIN modules, ctx \in Contexts :
         /\ SecurityCheck(accessController, ctx, PermEnable) = "ok"
         /\ moduleStates' = MapPut(moduleStates, name, TRUE)
         /\ Set(t, HoldsLock([Begin("EnableModule") EXCEPT
                                 !.ctx = ctx, !.m = modules[name],
                                 !.pre = Snapshot(IsEnabled(moduleStates, name),
                                                  regServices)],
                             Call("Start", modules[name], FALSE)))
    /\ UNCHANGED <<modules, gateways, running, accessController, wired, busVars,
                   libVars, regServices, regGateways, started, gstarted, faults>>

\* DisableModule on a running kernel: m.Stop is invoked with k.mu held and
\* calls k.Running().
DisableModuleReenters(t) ==
    /\ CanBegin(t)
    /\ running
    /\ opsLeft' = opsLeft - 1
    /\ \E name \in InputNames \cap DOMAIN modules, ctx \in Contexts :
         /\ SecurityCheck(accessController, ctx, PermDisable) = "ok"
         /\ moduleStates' = MapPut(moduleStates, name, FALSE)
         /\ Set(t, HoldsLock([Begin("DisableModule") EXCEPT
                                 !.ctx = ctx, !.m = modules[name],
                                 !.pre = Snapshot(IsEnabled(moduleStates, name),
                                                  regServices)],
                             Call("Stop", modules[name], FALSE)))
    /\ UNCHANGED <<modules, gateways, running, accessController, wired, busVars,
                   libVars, regServices, regGateways, started, gstarted, faults>>

\* AddGateway of a gateway that has a configuration: g.Configure is invoked
\* between Lock and Unlock and calls k.Running().
AddGatewayConfigureReenters(t) ==
    /\ CanBegin(t)
    /\ opsLeft' = opsLeft - 1
    /\ \E g \in ConfigGateways \ gateways :
         Set(t, HoldsLock([Begin("AddGateway") EXCEPT !.g = g],
                          GatewayCall("Configure", g, FALSE)))
    /\ UNCHANGED <<kernelMaps, accessController, wired, busVars, libVars,
                   regServices, regGateways, started, gstarted, faults>>

Reenters ==
    \/ \E t \in Threads : EnableModuleReenters(t)
    \/ \E t \in Threads : DisableModuleReenters(t)
    \/ \E t \in Threads : AddGatewayConfigureReenters(t)

\* Nothing gets k.mu once a thread holds it for ever.
NextReenter == (~Deadlocked /\ Next) \/ Reenters

SpecReenter == InitSeq /\ [][NextReenter]_vars

\* C31: no kernel operation invokes a component method while it holds the
\* kernel lock, so a component callback that calls back into the kernel never
\* deadlocks.
C31_NoDeadlock == ~Deadlocked

\* EnableModule of a module of a running kernel waits inside m.Start for the
\* lock it holds.
C31_Witness ==
    \E t \in Threads :
      /\ th[t].op = "EnableModule"
      /\ th[t].pc = "deadlock"
      /\ running
      /\ th[t].calls = <<Call("Start", th[t].m, FALSE)>>

-----------------------------------------------------------------------------
(* C32: accesses to the kernel's maps and the kernel lock *)

\* Start is between k.mu.Unlock() and the return of getModuleStartupOrder:
\* it iterates over k.modules and reads k.moduleStates without k.mu.
UnlockedRead(rec) == rec.op = "Start" /\ rec.pc = "start_order"

\* A step of an operation on modules made by thread u.
ModuleStep(u) ==
    \/ AddModuleBegin(u) \/ AddModuleLoad(u) \/ AddModuleStart(u)
    \/ AddModuleRegister(u)
    \/ RemoveModuleBegin(u) \/ RemoveModuleUnregister(u) \/ RemoveModuleStop(u)
    \/ EnableModule(u) \/ DisableModule(u)
    \/ ReloadModuleBegin(u) \/ ReloadModuleStop(u) \/ ReloadModuleReplace(u)
    \/ ReloadModuleRestore(u) \/ ReloadModuleStart(u) \/ ReloadModuleRollback(u)

\* A locked section of thread u that writes k.modules or k.moduleStates.
MapWrite(u) ==
    /\ ModuleStep(u)
    /\ <<modules, moduleStates>>' # <<modules, moduleStates>>

\* C32: every read or write of the kernel's maps is made with the kernel
\* lock held, the dependency-order computation of Start included: no thread
\* reads the maps without the lock while another thread is about to write
\* them.
C32_NoUnlockedAccess ==
    \A t, u \in Threads :
       (t # u /\ UnlockedRead(th[t])) => ~ENABLED MapWrite(u)

\* The order that Start computed holds a module that AddModule put into
\* k.modules after Start had released the lock (AddModule found the kernel
\* running).
C32_Witness ==
    \E t, u \in Threads :
      /\ t # u
      /\ th[t].op = "Start"
      /\ th[u].op = "AddModule"
      /\ th[u].run
      /\ \E i \in 1..Len(th[t].ord) : th[t].ord[i] = th[u].m

-----------------------------------------------------------------------------
(* C33: Stop after the dependency graph was broken while running *)

\* Operations issued in one behaviour of the shutdown specification.
MaxShutdownOps == 3

\* A kernel populated while stopped with enabled modules of version 1.0.0
\* and any dependencies, used by one client that calls Start, Stop,
\* DisableModule and RemoveModule.
InitShutdown ==
    /\ \E S \in SUBSET Names :
         \E d \in [S -> SUBSET Names] :
            /\ modules = [n \in S |-> Module(n, 1, <<1, 0, 0>>, DepsOn(d[n]))]
            /\ moduleStates = [n \in S |-> TRUE]
    /\ gateways = GNames
    /\ regGateways = gateways
    /\ running = FALSE
    /\ accessController = "allowAll"
    /\ regServices = <<>>
    /\ started = {}
    /\ gstarted = {}
    /\ wired = { modules[n] : n \in DOMAIN modules }
    /\ BusNew({}, 0, 0)
    /\ LibUnused
    /\ th = [t \in {1} |-> Idle]
    /\ faults = MaxOpFaults
    /\ opsLeft = MaxShutdownOps

NextShutdown ==
    \/ KernelStart
    \/ KernelStop
    \/ \E t \in Threads : DisableModule(t)
    \/ \E t \in Threads : RemoveModuleBegin(t)
    \/ \E t \in Threads : RemoveModuleUnregister(t)
    \/ \E t \in Threads : RemoveModuleStop(t)

SpecShutdown == InitShutdown /\ [][NextShutdown]_vars

\* Stop has returned from a kernel that was running.
Stopped(rec) ==
    /\ rec.op = "Stop"
    /\ rec.pc = "idle"
    /\ rec.ret # <<"not running", "-">>

\* The module instances of the kernel that are enabled and in the started
\* state.
EnabledStarted ==
    { m \in started : m.name \in DOMAIN modules /\ modules[m.name] = m
                      /\ IsEnabled(moduleStates, m.name) }

\* C33: Stop on a running kernel invokes Stop on every enabled module that
\* was started, also when the dependency analysis made at shutdown fails: an
\* enabled module that is still started when Stop has returned is one whose
\* Stop was invoked and failed.
C33_StopStopsAll ==
    \A t \in Threads :
       Stopped(th[t]) =>
          \A m \in EnabledStarted :
             \E i \in 1..Len(th[t].calls) :
                /\ IsModuleStop(th[t].calls[i])
                /\ th[t].calls[i].c = m

\* Stop has returned without error from a kernel whose shutdown analysis
\* fails, and an enabled module is still started.
C33_Witness ==
    \E t \in Threads :
      /\ Stopped(th[t])
      /\ th[t].ret = NoErr
      /\ \A r \in getModuleShutdownOrder(modules, moduleStates) : r.err # NoErr
      /\ EnabledStarted # {}

-----------------------------------------------------------------------------
(* C34: what UnregisterServicesByModule and the Register methods change *)

\* The services of r that module moduleName does not own.
ServicesOfOthers(r, moduleName) ==
    [n \in { x \in DOMAIN r.services : r.services[x].moduleName # moduleName } |->
        r.services[n]]

\* The step is a call UnregisterServicesByModule(moduleName) that returns
\* having removed the services of moduleName and nothing else.
UnregistersExactly ==
    /\ libCall'.pc = "done"
    /\ reg'.services = ServicesOfOthers(reg, libCall'.arg)
    /\ reg'.gateways = reg.gateways

\* The step is a Register call with a name in use that returns an error and
\* changes nothing.
RegisterRejected ==
    /\ libCall'.err = "already registered"
    /\ reg' = reg

\* C34: UnregisterServicesByModule(m) removes exactly the services owned by m
\* and leaves the other services and the gateway map unchanged, also when a
\* gateway is registered under the name m; RegisterService and
\* RegisterGateway with a name in use return an error and leave the existing
\* entry unchanged.
C34_RegistryFrame ==
    [][ /\ RegistryUnregisterServicesByModule => UnregistersExactly
        /\ (RegistryRegisterService /\ libCall'.arg \in DOMAIN reg.services)
              => RegisterRejected
        /\ (RegistryRegisterGateway /\ libCall'.arg \in DOMAIN reg.gateways)
              => RegisterRejected ]_vars

\* UnregisterServicesByModule(m) was called with a gateway registered under
\* the name m and with services of another module registered.
C34_Witness ==
    /\ libCall.op = "UnregisterServicesByModule"
    /\ libCall.arg \in DOMAIN reg.gateways
    /\ reg.services # <<>>

-----------------------------------------------------------------------------
(* C35: Publish with a cancelled context *)

\* The step is an iteration of the loop of a Publish of client c whose
\* context was cancelled before the select.
SelectAfterCancel(c) ==
    /\ cl[c].pc = "send"
    /\ cl[c].done
    /\ cl'[c] # cl[c]

\* C35: a Publish called with a context that is already cancelled delivers
\* to no sink, and a Publish whose context is cancelled part-way delivers to
\* no further sink: an iteration made after the cancellation puts nothing
\* into a sink and ends the call.
C35_CancelledDeliversNothing ==
    [][ \A c \in Clients :
           SelectAfterCancel(c) => (sinks' = sinks /\ cl'[c].pc = "idle") ]_vars

\* A Publish has returned whose last select ran with the context cancelled
\* and sent the event.
C35_Witness ==
    \E c \in Clients :
      /\ cl[c].op = "Publish"
      /\ cl[c].pc = "idle"
      /\ cl[c].done
      /\ Len(cl[c].sent) = Len(cl[c].chs)
      /\ Len(cl[c].sent) > 0
      /\ cl[c].sent[Len(cl[c].sent)].case = "send"

-----------------------------------------------------------------------------
(* C36: Publish and a sink closed after the snapshot *)

\* C36: for every interleaving of Publish with a cancel-handle call or
\* Close, Publish never sends on a sink that was closed: no Publish ends in
\* the panic of a send on a closed channel.
C36_NoSendOnClosed ==
    \A c \in Clients :
       /\ cl[c].pc # "panicked"
       /\ \A k \in 1..Len(cl[c].sent) : cl[c].sent[k].case # "panic"

\* A Publish is at a sink of its snapshot that was open when the snapshot
\* was taken and has been closed since.
C36_Witness ==
    \E c \in Clients :
      /\ cl[c].op = "Publish"
      /\ cl[c].pc = "send"
      /\ ~cl[c].pre.closed
      /\ cl[c].chs[cl[c].i] \notin cl[c].pre.dead
      /\ ~sinks[cl[c].chs[cl[c].i]].open

-----------------------------------------------------------------------------
(* C37: RemoveModule of a module that shares its name with a gateway *)

\* The gateways that were added to the kernel before the client's calls: G,
\* or a gateway that carries the name of module A, or both.
SharedNameGateways == { {"G"}, {"A"}, {"A", "G"} }

\* A populated kernel as in the shutdown specification, with gateways whose
\* names may coincide with a module's.
InitNames ==
    /\ \E S \in SUBSET Names :
         \E d \in [S -> SUBSET Names] :
            /\ modules = [n \in S |-> Module(n, 1, <<1, 0, 0>>, DepsOn(d[n]))]
            /\ moduleStates = [n \in S |-> TRUE]
    /\ gateways \in SharedNameGateways
    /\ regGateways = gateways
    /\ running = FALSE
    /\ accessController = "allowAll"
    /\ regServices = <<>>
    /\ started = {}
    /\ gstarted = {}
    /\ wired = { modules[n] : n \in DOMAIN modules }
    /\ BusNew({}, 0, 0)
    /\ LibUnused
    /\ th = [t \in {1} |-> Idle]
    /\ faults = MaxOpFaults
    /\ opsLeft = MaxShutdownOps

SpecNames == InitNames /\ [][NextShutdown]_vars

\* C37: RemoveModule(name), and the UnregisterServicesByModule(name) it
\* calls, always return: no call waits inside the registry for the registry
\* lock it already holds, also when a gateway with the module's name is
\* registered.
C37_RemoveModuleReturns ==
    \A t \in Threads : ~(th[t].op = "RemoveModule" /\ th[t].pc = "blocked")

\* RemoveModule of a module whose name a registered gateway carries has
\* deleted the module from the kernel's maps and is inside
\* UnregisterServicesByModule.
C37_Witness ==
    \E t \in Threads :
      /\ th[t].op = "RemoveModule"
      /\ th[t].pc = "blocked"
      /\ th[t].m.name \in regGateways
      /\ th[t].m.name \notin DOMAIN modules

-----------------------------------------------------------------------------
(* C38: a kernel that is not running has nothing started *)

\* C38: in every state in which no operation is in progress and Running()
\* is false, no module and no gateway is started, provided no component
\* callback has failed (so every Stop call succeeded), for all interleavings
\* of the kernel's operations.
C38_NotRunningNothingStarted ==
    (Quiescent /\ ~running /\ faults = MaxOpFaults)
        => (started = {} /\ gstarted = {})

\* Start and Stop have both returned nil, no callback has failed, the kernel
\* is not running and a module is started: Stop was issued while Start was
\* still starting the components.
C38_Witness ==
    \E t, u \in Threads :
      /\ Quiescent
      /\ ~running
      /\ faults = MaxOpFaults
      /\ th[t].op = "Start" /\ th[t].ret = NoErr
      /\ th[u].op = "Stop" /\ th[u].ret = NoErr
      /\ started # {}

-----------------------------------------------------------------------------
(* C39: Start on an instance that is started *)

\* Call j of the sequence c is a successful Start or Stop of the module
\* instance of call i.
Toggles(c, i, j) ==
    /\ c[j].kind = "module"
    /\ c[j].cb \in {"Start", "Stop"}
    /\ c[j].ok
    /\ c[j].c = c[i].c

\* The module instance of call i of the sequence c, the calls a thread makes
\* in one step, is started when call i is made.
StartedAt(c, i) ==
    LET before == { j \in 1..(i - 1) : Toggles(c, i, j) }
    IN IF before = {} THEN c[i].c \in started
       ELSE LET last == CHOOSE j \in before : \A k \in before : k <= j
            IN c[last].cb = "Start"

\* C39: the kernel never invokes Start on a module instance that is started
\* without a Stop of that instance in between, in any sequence of Start,
\* AddModule, EnableModule, DisableModule and ReloadModule; EnableModule of a
\* module that is enabled and started does not start it again.  As long as
\* no callback has failed, the instances on which Start was invoked and no
\* Stop since are the started ones.
C39_NoSecondStart ==
    [][ \A t \in Threads :
          LET c == NewCalls(t)
          IN \A i \in 1..Len(c) :
               (faults = MaxFaults /\ c[i].kind = "module" /\ c[i].cb = "Start")
                  => ~StartedAt(c, i) ]_vars

\* EnableModule of a module that was enabled has called Start on it, on a
\* running kernel in which no callback has failed and the module is started.
C39_Witness ==
    \E t \in Threads :
      /\ th[t].op = "EnableModule"
      /\ th[t].pc = "idle"
      /\ th[t].pre.enabled
      /\ running
      /\ faults = MaxFaults
      /\ th[t].m \in started
      /\ th[t].calls = <<Call("Start", th[t].m, TRUE)>>

-----------------------------------------------------------------------------
(* C40: the kernel's gateway map and the registry's *)

\* C40: when every AddGateway and RemoveGateway call has returned, successful
\* or not, the names in the kernel's gateway map are the names in the
\* registry's gateway map: a failed AddGateway leaves the gateway in neither
\* and a RemoveGateway whose Stop failed leaves it in both.
C40_GatewayMapsAgree ==
    Quiescent => gateways = regGateways

\* An AddGateway that failed because the registry refused the name has
\* returned, every other call has returned, and the gateway is in the
\* kernel's map but not in the registry's.
C40_Witness ==
    \E t \in Threads :
      /\ Quiescent
      /\ th[t].op = "AddGateway"
      /\ th[t].ret = <<"register gateway", th[t].g>>
      /\ th[t].g \in gateways
      /\ th[t].g \notin regGateways

====
